---- MODULE Spec2Model ----
(***************************************************************************)
(* A model of the Parthenon configurator: the sectioned KEY=value codec    *)
(* (ConfigManager), the ConfigurationApp main window with its seven form   *)
(* sections, and the validators of the form sections and of the widgets.   *)
(*                                                                         *)
(* Text is modelled as a sequence of one-character strings, so that        *)
(* str.strip, str.split, str.lower, str.isdigit and int() are computed     *)
(* character by character as Python computes them.  A Python dict is a     *)
(* sequence of <<key, value>> pairs with distinct keys, in insertion       *)
(* order; an optional value (None or x) is <<>> or <<x>>.                  *)
(***************************************************************************)
EXTENDS Integers, Sequences, FiniteSets, TLC

(***************************************************************************)
(* Python built-ins used by the code                                       *)
(***************************************************************************)

None == <<>>

Some(x) == <<x>>

\* str.strip() with no argument removes these (ASCII) characters
WhiteSpace == {" ", "\t", "\n", "\r", "\f"}

RECURSIVE LStrip(_)
LStrip(s) ==
    IF s = <<>> THEN <<>>
    ELSE IF Head(s) \in WhiteSpace THEN LStrip(Tail(s)) ELSE s

RECURSIVE RStrip(_)
RStrip(s) ==
    IF s = <<>> THEN <<>>
    ELSE IF s[Len(s)] \in WhiteSpace THEN RStrip(SubSeq(s, 1, Len(s) - 1)) ELSE s

\* s.strip()
Strip(s) == RStrip(LStrip(s))

\* s.startswith(p)
StartsWith(s, p) == Len(s) >= Len(p) /\ SubSeq(s, 1, Len(p)) = p

\* s.endswith(p)
EndsWith(s, p) == Len(s) >= Len(p) /\ SubSeq(s, Len(s) - Len(p) + 1, Len(s)) = p

\* p in s  (substring test)
Contains(s, p) ==
    \/ p = <<>>
    \/ \E i \in 1..(Len(s) - Len(p) + 1) :
           s[i] = p[1] /\ SubSeq(s, i, i + Len(p) - 1) = p

\* positions of the character c in s
Positions(s, c) == {i \in 1..Len(s) : s[i] = c}

Min(S) == CHOOSE x \in S : \A y \in S : x <= y

Max(S) == CHOOSE x \in S : \A y \in S : x >= y

\* s.rsplit(c, 1) in the place of s.split(c, 1)
SplitFirst_Last(s, c) ==
    LET i == Max(Positions(s, c))
    IN  <<SubSeq(s, 1, i - 1), SubSeq(s, i + 1, Len(s))>>

\* s.split(c, 1): the text before and after the first c (c occurs in s)
SplitFirst(s, c) ==
    LET i == Min(Positions(s, c))
    IN  <<SubSeq(s, 1, i - 1), SubSeq(s, i + 1, Len(s))>>

\* s.split(c)[-1]: the text after the last c, the whole of s when c is absent
AfterLast(s, c) ==
    IF Positions(s, c) = {} THEN s
    ELSE SubSeq(s, Max(Positions(s, c)) + 1, Len(s))

\* where a text file read with universal newlines ends a line: at "\n", at
\* "\r", and once at "\r\n"
LineBreaks(s) ==
    {i \in 1..Len(s) : s[i] = "\n" \/ s[i] = "\r"}

\* the lines `for line in file` yields (line ends removed) for the text
\* s + "\n" written to the file
RECURSIVE SplitLines(_)
SplitLines(s) ==
    IF LineBreaks(s) = {} THEN <<s>>
    ELSE LET i == Min(LineBreaks(s))
             n == IF s[i] = "\r" /\ i < Len(s) /\ s[i + 1] = "\n" THEN i + 2 ELSE i + 1
         IN  <<SubSeq(s, 1, i - 1)>> \o SplitLines(SubSeq(s, n, Len(s)))

\* dict operations
DictKeys(d) == {d[i][1] : i \in 1..Len(d)}

DictHas(d, k) == k \in DictKeys(d)

DictGet(d, k) == d[CHOOSE i \in 1..Len(d) : d[i][1] = k][2]

\* d.get(k, default)
DictGetOr(d, k, default) == IF DictHas(d, k) THEN DictGet(d, k) ELSE default

\* d[k] = v : an existing key keeps its place, a new key goes last
DictSet(d, k, v) ==
    IF DictHas(d, k)
    THEN [i \in 1..Len(d) |-> IF d[i][1] = k THEN <<k, v>> ELSE d[i]]
    ELSE Append(d, <<k, v>>)

\* a flat dict as a mathematical mapping: dict equality ignores order
AsMap(d) == {<<d[i][1], d[i][2]>> : i \in 1..Len(d)}

\* a config (dict of dicts) as a mathematical mapping
ConfigAsMap(c) == {<<c[i][1], AsMap(c[i][2])>> : i \in 1..Len(c)}

\* c1 == c2 for two configs
ConfigEq(c1, c2) == ConfigAsMap(c1) = ConfigAsMap(c2)

(***************************************************************************)
(* More Python built-ins: str.isdigit, int, str.lower, str.isalnum,        *)
(* json.loads                                                              *)
(***************************************************************************)

AsciiDigits == <<"0", "1", "2", "3", "4", "5", "6", "7", "8", "9">>

UpperCase == <<"A", "B", "C", "D", "E", "F", "G", "H", "I", "J", "K", "L", "M", "N", "O", "P", "Q", "R", "S", "T", "U", "V", "W", "X", "Y", "Z">>

LowerCase == <<"a", "b", "c", "d", "e", "f", "g", "h", "i", "j", "k", "l", "m", "n", "o", "p", "q", "r", "s", "t", "u", "v", "w", "x", "y", "z">>

InSeq(c, s) == \E i \in 1..Len(s) : s[i] = c

IndexIn(c, s) == CHOOSE i \in 1..Len(s) : s[i] = c

IsAsciiDigit(c) == InSeq(c, AsciiDigits)

\* characters for which str.isdigit is true and int() raises ValueError
SuperscriptDigits == {"²"}

IsDigitChar(c) == IsAsciiDigit(c) \/ c \in SuperscriptDigits

\* s.isdigit()
IsDigit(s) == s # <<>> /\ \A i \in 1..Len(s) : IsDigitChar(s[i])

\* s.isalnum()
IsAlnum(s) ==
    /\ s # <<>>
    /\ \A i \in 1..Len(s) :
          IsDigitChar(s[i]) \/ InSeq(s[i], UpperCase) \/ InSeq(s[i], LowerCase)

\* s.replace(c, '')
Without(s, c) == SelectSeq(s, LAMBDA x : x # c)

\* s.lower()
Lower(s) ==
    [i \in 1..Len(s) |->
        IF InSeq(s[i], UpperCase) THEN LowerCase[IndexIn(s[i], UpperCase)] ELSE s[i]]

\* the number a string of ASCII digits denotes
RECURSIVE DigitsValue(_)
DigitsValue(s) ==
    IF s = <<>> THEN 0
    ELSE 10 * DigitsValue(SubSeq(s, 1, Len(s) - 1)) + (IndexIn(s[Len(s)], AsciiDigits) - 1)

\* int(s) reads, between optional whitespace, an optional sign and ASCII
\* digits that single underscores may separate
IntBody(s) ==
    LET t == Strip(s)
    IN  IF t # <<>> /\ t[1] \in {"+", "-"} THEN Tail(t) ELSE t

IntNegative(s) == LET t == Strip(s) IN t # <<>> /\ t[1] = "-"

\* int(s) raises ValueError
IntRaises(s) ==
    LET u == IntBody(s)
    IN  \/ u = <<>>
        \/ \E i \in 1..Len(u) : ~(IsAsciiDigit(u[i]) \/ u[i] = "_")
        \/ u[1] = "_" \/ u[Len(u)] = "_"
        \/ \E i \in 1..(Len(u) - 1) : u[i] = "_" /\ u[i + 1] = "_"

\* int(s), where it does not raise
IntOf(s) ==
    LET n == DigitsValue(Without(IntBody(s), "_"))
    IN  IF IntNegative(s) THEN 0 - n ELSE n

\* json.loads(s) succeeds: s is one JSON value between optional whitespace.
\* Each ...End operator is given the place where its part starts and yields
\* the place after it, or 0 when json raises JSONDecodeError.
JsonWhiteSpace == {" ", "\t", "\n", "\r"}

JsonControl == {"\t", "\n", "\r", "\f"}

JsonEscapes == {"\"", "\\", "/", "b", "f", "n", "r", "t"}

HexDigits == {"a", "b", "c", "d", "e", "f", "A", "B", "C", "D", "E", "F"}

RECURSIVE SkipWs(_, _)
SkipWs(s, i) ==
    IF i <= Len(s) /\ s[i] \in JsonWhiteSpace THEN SkipWs(s, i + 1) ELSE i

RECURSIVE SkipDigits(_, _)
SkipDigits(s, i) ==
    IF i <= Len(s) /\ IsAsciiDigit(s[i]) THEN SkipDigits(s, i + 1) ELSE i

At(s, i, w) == i + Len(w) - 1 <= Len(s) /\ SubSeq(s, i, i + Len(w) - 1) = w

\* a number: (-?(?:0|[1-9][0-9]*))(\.[0-9]+)?([eE][-+]?[0-9]+)?
\* the digits of an exponent that starts at f, its digits at x
JsonExponentEnd(s, f, x) ==
    IF SkipDigits(s, x) > x THEN SkipDigits(s, x) ELSE f

\* from the place f after the fraction
JsonExponent(s, f) ==
    IF f <= Len(s) /\ s[f] \in {"e", "E"}
    THEN JsonExponentEnd(s, f, IF f + 1 <= Len(s) /\ s[f + 1] \in {"+", "-"}
                               THEN f + 2 ELSE f + 1)
    ELSE f

\* from the place n after the integer part
JsonFraction(s, n) ==
    IF At(s, n, <<".">>) /\ SkipDigits(s, n + 1) > n + 1
    THEN JsonExponent(s, SkipDigits(s, n + 1))
    ELSE JsonExponent(s, n)

\* from the place d after the sign
JsonInteger(s, d) ==
    IF At(s, d, <<"0">>) THEN JsonFraction(s, d + 1)
    ELSE IF SkipDigits(s, d) = d THEN 0
    ELSE JsonFraction(s, SkipDigits(s, d))

JsonNumberEnd(s, i) == JsonInteger(s, IF At(s, i, <<"-">>) THEN i + 1 ELSE i)

RECURSIVE JsonStringEnd(_, _)
JsonStringEnd(s, i) ==
    IF i > Len(s) THEN 0
    ELSE IF s[i] = "\"" THEN i + 1
    ELSE IF s[i] \in JsonControl THEN 0
    ELSE IF s[i] = "\\"
         THEN IF i + 1 <= Len(s) /\ s[i + 1] \in JsonEscapes
              THEN JsonStringEnd(s, i + 2)
              ELSE IF /\ i + 5 <= Len(s)
                      /\ s[i + 1] = "u"
                      /\ \A k \in (i + 2)..(i + 5) :
                            IsAsciiDigit(s[k]) \/ s[k] \in HexDigits
                   THEN JsonStringEnd(s, i + 6)
                   ELSE 0
    ELSE JsonStringEnd(s, i + 1)

JsonLiterals ==
    { <<"t", "r", "u", "e">>, <<"f", "a", "l", "s", "e">>, <<"n", "u", "l", "l">>, <<"N", "a", "N">>, <<"I", "n", "f", "i", "n", "i", "t", "y">>, <<"-", "I", "n", "f", "i", "n", "i", "t", "y">> }

RECURSIVE JsonValueEnd(_, _)
RECURSIVE JsonArrayEnd(_, _)
RECURSIVE JsonArrayNext(_, _)
RECURSIVE JsonObjectEnd(_, _)
RECURSIVE JsonMember(_, _)

\* the value that starts at s[i]
JsonValueEnd(s, i) ==
    IF i > Len(s) THEN 0
    ELSE IF s[i] = "\"" THEN JsonStringEnd(s, i + 1)
    ELSE IF s[i] = "{" THEN JsonObjectEnd(s, SkipWs(s, i + 1))
    ELSE IF s[i] = "[" THEN JsonArrayEnd(s, SkipWs(s, i + 1))
    ELSE IF \E w \in JsonLiterals : At(s, i, w)
         THEN i + Len(CHOOSE w \in JsonLiterals : At(s, i, w))
    ELSE JsonNumberEnd(s, i)

\* an array, after a value of it: k is the place of what follows the value
JsonArraySeparator(s, k) ==
    IF At(s, k, <<"]">>) THEN k + 1
    ELSE IF At(s, k, <<",">>) /\ ~At(s, SkipWs(s, k + 1), <<"]">>)
         THEN JsonArrayNext(s, JsonValueEnd(s, SkipWs(s, k + 1)))
    ELSE 0

\* an array, after a value of it that ended at v
JsonArrayNext(s, v) == IF v = 0 THEN 0 ELSE JsonArraySeparator(s, SkipWs(s, v))

\* the rest of an array, from its first value or its ']'
JsonArrayEnd(s, i) ==
    IF At(s, i, <<"]">>) THEN i + 1 ELSE JsonArrayNext(s, JsonValueEnd(s, i))

\* an object, after a value of it: k is the place of what follows the value
JsonObjectSeparator(s, k) ==
    IF At(s, k, <<"}">>) THEN k + 1
    ELSE IF At(s, k, <<",">>) THEN JsonMember(s, SkipWs(s, k + 1))
    ELSE 0

\* an object, after a value of it that ended at v
JsonObjectNext(s, v) == IF v = 0 THEN 0 ELSE JsonObjectSeparator(s, SkipWs(s, v))

\* a member, after its key: c is the place of what follows the key
JsonMemberValue(s, c) ==
    IF At(s, c, <<":">>) THEN JsonObjectNext(s, JsonValueEnd(s, SkipWs(s, c + 1))) ELSE 0

\* a member, after its key that ended at key
JsonMemberColon(s, key) == IF key = 0 THEN 0 ELSE JsonMemberValue(s, SkipWs(s, key))

\* a member of an object, from its key
JsonMember(s, i) ==
    IF At(s, i, <<"\"">>) THEN JsonMemberColon(s, JsonStringEnd(s, i + 1)) ELSE 0

\* the rest of an object, from its first key or its '}'
JsonObjectEnd(s, i) ==
    IF At(s, i, <<"}">>) THEN i + 1 ELSE JsonMember(s, i)

\* what follows the value that ended at e is whitespace
JsonEnd(s, e) == e # 0 /\ SkipWs(s, e) = Len(s) + 1

\* json.loads(s) returns (does not raise JSONDecodeError)
IsJson(s) == JsonEnd(s, JsonValueEnd(s, SkipWs(s, 1)))

(***************************************************************************)
(* ConfigManager: the sectioned KEY=value file format                      *)
(***************************************************************************)

\* the decorative line of the header block
HeaderBarLen == 92

HeaderBar == [i \in 1..HeaderBarLen |-> "#"]

SectionWord == <<"S", "e", "c", "t", "i", "o", "n">>

SectionPrefix == <<"#", " ">> \o SectionWord \o <<":", " ">>

\* the lines written for one key of a section
EncodeEntry(kv) == SplitLines(kv[1] \o <<"=">> \o kv[2])

RECURSIVE EncodeValues(_)
EncodeValues(values) ==
    IF values = <<>> THEN <<>>
    ELSE EncodeEntry(Head(values)) \o EncodeValues(Tail(values))

\* the lines written for one section: header block, keys, blank line
EncodeSection(sv) ==
    <<HeaderBar>> \o SplitLines(SectionPrefix \o sv[1]) \o <<HeaderBar, <<>>>>
        \o EncodeValues(sv[2]) \o <<<<>>>>

\* ConfigManager.save_config: the lines of the file written for a config
RECURSIVE Encode(_)
Encode(cfg) ==
    IF cfg = <<>> THEN <<>>
    ELSE EncodeSection(Head(cfg)) \o Encode(Tail(cfg))

\* `if current_section:` is true of a non-empty name only
Truthy(opt) == opt # None /\ opt[1] # <<>>

IsComment(line) == StartsWith(line, <<"#">>)

IsSectionHeader(line) == IsComment(line) /\ Contains(line, SectionWord)

\* HeaderName without the .strip()
HeaderName_NoStrip(line) == AfterLast(line, ":")

\* HeaderName with .rstrip() for .strip()
HeaderName_RStrip(line) == RStrip(AfterLast(line, ":"))

HeaderName(line) == Strip(AfterLast(line, ":"))

\* the loop body with config.setdefault(current_section, {}) at a header
LoadLineBody_KeepKeys(st, raw) ==
    LET line == Strip(raw) IN
    IF IsComment(line)
    THEN IF Contains(line, SectionWord)
         THEN [config |-> IF DictHas(st.config, HeaderName(line)) THEN st.config
                          ELSE DictSet(st.config, HeaderName(line), <<>>),
               current_section |-> Some(HeaderName(line))]
         ELSE st
    ELSE IF Contains(line, <<"=">>)
         THEN IF Truthy(st.current_section)
              THEN LET kv  == SplitFirst(line, "=")
                       sec == st.current_section[1]
                   IN  [st EXCEPT !.config =
                           DictSet(@, sec,
                               DictSet(DictGet(@, sec), Strip(kv[1]), Strip(kv[2])))]
              ELSE st
         ELSE st

\* the body of the loop of load_config, on one raw line of the file
LoadLineBody(st, raw) ==
    LET line == Strip(raw) IN
    IF IsComment(line)
    THEN IF Contains(line, SectionWord)
         THEN [config |-> DictSet(st.config, HeaderName(line), <<>>),
               current_section |-> Some(HeaderName(line))]
         ELSE st
    ELSE IF Contains(line, <<"=">>)
         THEN IF Truthy(st.current_section)
              THEN LET kv  == SplitFirst(line, "=")
                       sec == st.current_section[1]
                   IN  [st EXCEPT !.config =
                           DictSet(@, sec,
                               DictSet(DictGet(@, sec), Strip(kv[1]), Strip(kv[2])))]
              ELSE st
         ELSE st

RECURSIVE LoadLines(_, _)
LoadLines(st, lines) ==
    IF lines = <<>> THEN st
    ELSE LoadLines(LoadLineBody(st, Head(lines)), Tail(lines))

\* ConfigManager.load_config on a file that is read without error
Decode(lines) ==
    LoadLines([config |-> <<>>, current_section |-> None], lines).config

Returned(v) == [kind |-> "returned", value |-> v]

Raised(m) == [kind |-> "raised", value |-> m]

\* save_config returns nothing
Saved == [kind |-> "saved", value |-> <<>>]

NoCall == [kind |-> "none", value |-> <<>>]

\* what a failed write leaves behind: the file untouched (open failed), or
\* truncated by open(filepath, 'w') with the buffered text never flushed
FailedWrites(old) == {old, Some(<<>>)}

(***************************************************************************)
(* The tabbed application's sections (base_config.py and *_config.py).     *)
(* A field name is a text of one symbol, the name; a field's value is the  *)
(* text of its widget.  A section's fields are a dict from names to values *)
(* in the order setup_fields adds them.                                    *)
(***************************************************************************)

\* host_config.py: the fields of setup_fields, as <<name, widget, default>>
HostFields ==
    << <<"HOST_NAME", "QLineEdit", <<"l", "o", "c", "a", "l", "h", "o", "s", "t">>>>,
       <<"HOST_PORT", "QLineEdit", <<"8", "0", "8", "0">>>>,
       <<"HOST_PROTOCOL", "QLineEdit", <<"h", "t", "t", "p">>>>,
       <<"HOST_CONTEXT_PATH", "QLineEdit", <<"/">>>> >>

\* atlas_config.py: the fields of setup_fields, as <<name, widget, default>>
AtlasFields ==
    << <<"ATLAS_VERSION", "QLineEdit", <<"2", ".", "1", "2", ".", "0">>>>,
       <<"ATLAS_PORT", "QLineEdit", <<"8", "0", "8", "0">>>>,
       <<"ATLAS_CONTEXT_PATH", "QLineEdit", <<"/", "a", "t", "l", "a", "s">>>>,
       <<"ATLAS_DB_HOST", "QLineEdit", <<"p", "o", "s", "t", "g", "r", "e", "s">>>>,
       <<"ATLAS_DB_PORT", "QLineEdit", <<"5", "4", "3", "2">>>>,
       <<"ATLAS_DB_NAME", "QLineEdit", <<"a", "t", "l", "a", "s">>>>,
       <<"ATLAS_DB_USER", "QLineEdit", <<"p", "o", "s", "t", "g", "r", "e", "s">>>>,
       <<"ATLAS_DB_PASS", "QLineEdit", <<"p", "o", "s", "t", "g", "r", "e", "s">>>>,
       <<"ATLAS_CONFIG", "QTextEdit", <<"{", "}">>>> >>

\* webapi_config.py: the fields of setup_fields, as <<name, widget, default>>
WebAPIFields ==
    << <<"WEBAPI_VERSION", "QLineEdit", <<"2", ".", "1", "2", ".", "0">>>>,
       <<"WEBAPI_PORT", "QLineEdit", <<"8", "0", "8", "1">>>>,
       <<"WEBAPI_CONTEXT_PATH", "QLineEdit", <<"/", "W", "e", "b", "A", "P", "I">>>>,
       <<"WEBAPI_DB_HOST", "QLineEdit", <<"p", "o", "s", "t", "g", "r", "e", "s">>>>,
       <<"WEBAPI_DB_PORT", "QLineEdit", <<"5", "4", "3", "2">>>>,
       <<"WEBAPI_DB_NAME", "QLineEdit", <<"o", "h", "d", "s", "i">>>>,
       <<"WEBAPI_DB_USER", "QLineEdit", <<"p", "o", "s", "t", "g", "r", "e", "s">>>>,
       <<"WEBAPI_DB_PASS", "QLineEdit", <<"p", "o", "s", "t", "g", "r", "e", "s">>>>,
       <<"WEBAPI_DATASOURCES_JSON", "QLineEdit", <<"[", "]">>>>,
       <<"WEBAPI_CORS_ENABLED", "QLineEdit", <<"t", "r", "u", "e">>>>,
       <<"WEBAPI_SECURITY_ENABLED", "QLineEdit", <<"f", "a", "l", "s", "e">>>> >>

\* security_config.py: the fields of setup_fields, as <<name, widget, default>>
SecurityFields ==
    << <<"SECURITY_ENABLED", "QLineEdit", <<"f", "a", "l", "s", "e">>>>,
       <<"SECURITY_AUTH_PROVIDER", "QLineEdit", <<"d", "b">>>>,
       <<"SECURITY_DB_HOST", "QLineEdit", <<"p", "o", "s", "t", "g", "r", "e", "s">>>>,
       <<"SECURITY_DB_PORT", "QLineEdit", <<"5", "4", "3", "2">>>>,
       <<"SECURITY_DB_NAME", "QLineEdit", <<"s", "e", "c", "u", "r", "i", "t", "y">>>>,
       <<"SECURITY_DB_USER", "QLineEdit", <<"p", "o", "s", "t", "g", "r", "e", "s">>>>,
       <<"SECURITY_DB_PASS", "QLineEdit", <<"p", "o", "s", "t", "g", "r", "e", "s">>>>,
       <<"SECURITY_OAUTH_CLIENT_ID", "QLineEdit", <<>>>>,
       <<"SECURITY_OAUTH_CLIENT_SECRET", "QLineEdit", <<>>>>,
       <<"SECURITY_OAUTH_CALLBACK_URL", "QLineEdit", <<>>>>,
       <<"SECURITY_SSL_ENABLED", "QLineEdit", <<"f", "a", "l", "s", "e">>>>,
       <<"SECURITY_SSL_KEYSTORE", "QLineEdit", <<>>>>,
       <<"SECURITY_SSL_KEYSTORE_PASSWORD", "QLineEdit", <<>>>> >>

\* datasource_config.py: the fields of setup_fields, as <<name, widget, default>>
DataSourceFields ==
    << <<"DATASOURCE_NAME", "QLineEdit", <<"O", "H", "D", "S", "I", " ", "C", "D", "M">>>>,
       <<"DATASOURCE_KEY", "QLineEdit", <<"O", "H", "D", "S", "I">>>>,
       <<"DATASOURCE_DIALECT", "QLineEdit", <<"p", "o", "s", "t", "g", "r", "e", "s", "q", "l">>>>,
       <<"DATASOURCE_DB_HOST", "QLineEdit", <<"p", "o", "s", "t", "g", "r", "e", "s">>>>,
       <<"DATASOURCE_DB_PORT", "QLineEdit", <<"5", "4", "3", "2">>>>,
       <<"DATASOURCE_DB_NAME", "QLineEdit", <<"c", "d", "m">>>>,
       <<"DATASOURCE_DB_USER", "QLineEdit", <<"p", "o", "s", "t", "g", "r", "e", "s">>>>,
       <<"DATASOURCE_DB_PASS", "QLineEdit", <<"p", "o", "s", "t", "g", "r", "e", "s">>>>,
       <<"DATASOURCE_CDM_SCHEMA", "QLineEdit", <<"c", "d", "m">>>>,
       <<"DATASOURCE_VOCAB_SCHEMA", "QLineEdit", <<"v", "o", "c", "a", "b", "u", "l", "a", "r", "y">>>>,
       <<"DATASOURCE_RESULTS_SCHEMA", "QLineEdit", <<"r", "e", "s", "u", "l", "t", "s">>>>,
       <<"DATASOURCE_TEMP_SCHEMA", "QLineEdit", <<"t", "e", "m", "p">>>>,
       <<"DATASOURCE_COHORT_TARGET_TABLE", "QLineEdit", <<"c", "o", "h", "o", "r", "t">>>>,
       <<"DATASOURCE_ADVANCED_OPTIONS", "QTextEdit", <<"{", "}">>>> >>

\* build_config.py: the fields of setup_fields, as <<name, widget, default>>
BuildFields ==
    << <<"BUILD_MODE", "QLineEdit", <<"d", "e", "v", "e", "l", "o", "p", "m", "e", "n", "t">>>>,
       <<"BUILD_CLEAN", "QLineEdit", <<"f", "a", "l", "s", "e">>>>,
       <<"BUILD_PARALLEL", "QLineEdit", <<"t", "r", "u", "e">>>>,
       <<"BUILD_SKIP_TESTS", "QLineEdit", <<"f", "a", "l", "s", "e">>>>,
       <<"BUILD_SKIP_LINT", "QLineEdit", <<"f", "a", "l", "s", "e">>>>,
       <<"BUILD_SKIP_DOCS", "QLineEdit", <<"f", "a", "l", "s", "e">>>>,
       <<"BUILD_TARGET_DIR", "QLineEdit", <<".", "/", "t", "a", "r", "g", "e", "t">>>>,
       <<"BUILD_JAVA_HOME", "QLineEdit", <<>>>>,
       <<"BUILD_MAVEN_OPTS", "QLineEdit", <<"-", "X", "m", "x", "2", "g">>>>,
       <<"BUILD_MAVEN_PROFILES", "QLineEdit", <<>>>> >>

\* monitoring_config.py: the fields of setup_fields, as <<name, widget, default>>
MonitoringFields ==
    << <<"MONITORING_ENABLED", "QLineEdit", <<"t", "r", "u", "e">>>>,
       <<"MONITORING_PORT", "QLineEdit", <<"9", "0", "9", "0">>>>,
       <<"MONITORING_PATH", "QLineEdit", <<"/", "m", "e", "t", "r", "i", "c", "s">>>>,
       <<"MONITORING_INTERVAL", "QLineEdit", <<"1", "5">>>>,
       <<"MONITORING_RETENTION_DAYS", "QLineEdit", <<"3", "0">>>>,
       <<"MONITORING_LOG_LEVEL", "QLineEdit", <<"i", "n", "f", "o">>>>,
       <<"MONITORING_ALERT_EMAIL", "QLineEdit", <<>>>>,
       <<"MONITORING_ALERT_SLACK", "QLineEdit", <<>>>>,
       <<"MONITORING_DISK_THRESHOLD", "QLineEdit", <<"9", "0">>>>,
       <<"MONITORING_MEMORY_THRESHOLD", "QLineEdit", <<"8", "5">>>>,
       <<"MONITORING_CPU_THRESHOLD", "QLineEdit", <<"8", "0">>>> >>

\* self.fields after BaseConfigSection.__init__ ran setup_fields
FieldsOf(registry) ==
    [i \in 1..Len(registry) |-> <<<<registry[i][1]>>, registry[i][3]>>]

\* self.fields[name].text() or .toPlainText()
text(fields, name) == DictGet(fields, <<name>>)

\* What a validate has done so far: the issues it appended, and the
\* exception that ended it, if one did.
Begin == [issues |-> <<>>, raised |-> None]

Add(acc, msg) ==
    IF acc.raised = None THEN [acc EXCEPT !.issues = Append(@, msg)] ELSE acc

Throw(acc, exc) ==
    IF acc.raised = None THEN [acc EXCEPT !.raised = Some(exc)] ELSE acc

\* return issues, unless an exception left the function first
Finish(acc) ==
    IF acc.raised = None THEN Returned(acc.issues) ELSE Raised(acc.raised[1])

\* ', '.join(options)
RECURSIVE Join(_)
Join(options) ==
    IF Len(options) = 0 THEN ""
    ELSE IF Len(options) = 1 THEN options[1]
    ELSE options[1] \o ", " \o Join(Tail(options))

\* the characters of a text as one string
RECURSIVE AsString(_)
AsString(s) == IF s = <<>> THEN "" ELSE s[1] \o AsString(Tail(s))

\* value in options, for a list of string constants
In(value, options) == \E i \in 1..Len(options) : AsString(value) = options[i]

\* if not port.isdigit(): ... elif not (0 <= int(port) <= 65535): ...
PortRule(acc, port, label) ==
    IF ~IsDigit(port) THEN Add(acc, label \o " must be a number")
    ELSE IF IntRaises(port) THEN Throw(acc, "ValueError")
    ELSE IF ~(0 <= IntOf(port) /\ IntOf(port) <= 65535)
         THEN Add(acc, label \o " must be between 0 and 65535")
    ELSE acc

\* value = field.text().lower(); if value not in ["true", "false"]: ...
BoolRule(acc, fields, field) ==
    IF ~In(Lower(text(fields, field)), <<"true", "false">>)
    THEN Add(acc, field \o " must be either 'true' or 'false'")
    ELSE acc

\* try: json.loads(...) except json.JSONDecodeError: ...
JsonRule(acc, fields, field) ==
    IF ~IsJson(text(fields, field))
    THEN Add(acc, field \o " must be valid JSON")
    ELSE acc

\* for field in names: if not self.fields[field].text().strip(): ...
RECURSIVE RequiredRule(_, _, _, _)
RequiredRule(acc, fields, names, suffix) ==
    IF names = <<>> THEN acc
    ELSE RequiredRule(
             IF Strip(text(fields, names[1])) = <<>>
             THEN Add(acc, names[1] \o suffix) ELSE acc,
             fields, Tail(names), suffix)

\* for bool_field in names: ...
RECURSIVE BoolRules(_, _, _)
BoolRules(acc, fields, names) ==
    IF names = <<>> THEN acc
    ELSE BoolRules(BoolRule(acc, fields, names[1]), fields, Tail(names))

\* for port_field in names: ...
RECURSIVE PortRules(_, _, _)
PortRules(acc, fields, names) ==
    IF names = <<>> THEN acc
    ELSE PortRules(PortRule(acc, text(fields, names[1]), names[1]), fields, Tail(names))

\* if value not in options: issues.append(f"{field} must be one of: {', '.join(options)}")
OneOfRule(acc, value, field, options) ==
    IF ~In(value, options)
    THEN Add(acc, field \o " must be one of: " \o Join(options))
    ELSE acc

\* protocol = self.fields["HOST_PROTOCOL"].text().lower(); if protocol not in [...]: ...
ProtocolRule(acc, protocol) ==
    IF ~In(protocol, <<"http", "https">>)
    THEN Add(acc, "Protocol must be either 'http' or 'https'")
    ELSE acc

\* host_config.py
BroadseaHostSection_validate(fields) ==
    Finish(
      ProtocolRule(
        PortRule(Begin, text(fields, "HOST_PORT"), "Port"),
        Lower(text(fields, "HOST_PROTOCOL"))))

\* atlas_config.py
AtlasGUISection_validate(fields) ==
    Finish(
      JsonRule(
        PortRules(Begin, fields, <<"ATLAS_PORT", "ATLAS_DB_PORT">>),
        fields, "ATLAS_CONFIG"))

\* webapi_config.py
WebAPISection_validate(fields) ==
    Finish(
      BoolRules(
        JsonRule(
          PortRules(Begin, fields, <<"WEBAPI_PORT", "WEBAPI_DB_PORT">>),
          fields, "WEBAPI_DATASOURCES_JSON"),
        fields, <<"WEBAPI_CORS_ENABLED", "WEBAPI_SECURITY_ENABLED">>))

AuthProviders == <<"db", "oauth", "ldap">>

\* if auth_provider == "oauth": for field in oauth_fields: ...
OAuthRule(acc, fields, auth_provider) ==
    IF AsString(auth_provider) = "oauth"
    THEN RequiredRule(acc, fields,
             <<"SECURITY_OAUTH_CLIENT_ID", "SECURITY_OAUTH_CLIENT_SECRET",
               "SECURITY_OAUTH_CALLBACK_URL">>,
             " is required when using OAuth")
    ELSE acc

\* if self.fields["SECURITY_SSL_ENABLED"].text().lower() == "true": for field in ssl_fields: ...
SslRule(acc, fields) ==
    IF AsString(Lower(text(fields, "SECURITY_SSL_ENABLED"))) = "true"
    THEN RequiredRule(acc, fields,
             <<"SECURITY_SSL_KEYSTORE", "SECURITY_SSL_KEYSTORE_PASSWORD">>,
             " is required when SSL is enabled")
    ELSE acc

\* security_config.py
SecuritySection_validate(fields) ==
    Finish(
      SslRule(
        OAuthRule(
          OneOfRule(
            BoolRules(
              PortRule(Begin, text(fields, "SECURITY_DB_PORT"), "SECURITY_DB_PORT"),
              fields, <<"SECURITY_ENABLED", "SECURITY_SSL_ENABLED">>),
            Lower(text(fields, "SECURITY_AUTH_PROVIDER")),
            "SECURITY_AUTH_PROVIDER", AuthProviders),
          fields, Lower(text(fields, "SECURITY_AUTH_PROVIDER"))),
        fields))

valid_dialects == <<"postgresql", "sql server", "oracle", "redshift", "bigquery">>

\* if not key.replace('_', '').isalnum(): ...
KeyRule(acc, key) ==
    IF ~IsAlnum(Without(key, "_"))
    THEN Add(acc, "DATASOURCE_KEY must contain only letters, numbers, and underscores")
    ELSE acc

\* datasource_config.py
DataSourceSection_validate(fields) ==
    Finish(
      RequiredRule(
        JsonRule(
          KeyRule(
            OneOfRule(
              PortRule(Begin, text(fields, "DATASOURCE_DB_PORT"), "DATASOURCE_DB_PORT"),
              Lower(text(fields, "DATASOURCE_DIALECT")),
              "DATASOURCE_DIALECT", valid_dialects),
            text(fields, "DATASOURCE_KEY")),
          fields, "DATASOURCE_ADVANCED_OPTIONS"),
        fields,
        <<"DATASOURCE_NAME", "DATASOURCE_KEY", "DATASOURCE_CDM_SCHEMA",
          "DATASOURCE_VOCAB_SCHEMA", "DATASOURCE_RESULTS_SCHEMA">>,
        " cannot be empty"))

valid_modes == <<"development", "production", "test">>

\* maven_opts.startswith(p) for some p of prefixes
StartsWithAny(s, prefixes) == \E p \in prefixes : StartsWith(s, p)

EndsWithAny(s, suffixes) == \E p \in suffixes : EndsWith(s, p)

\* if maven_opts: if not any(maven_opts.startswith(prefix) ...): ...
MavenPrefixRule(acc, maven_opts) ==
    IF maven_opts # <<>> /\ ~StartsWithAny(maven_opts, {<<"-", "X", "m", "x">>, <<"-", "X", "m", "s">>})
    THEN Add(acc, "BUILD_MAVEN_OPTS must start with -Xmx or -Xms")
    ELSE acc

\* if maven_opts: ... if not any(maven_opts.endswith(suffix) ...): ...
MavenSuffixRule(acc, maven_opts) ==
    IF maven_opts # <<>> /\ ~EndsWithAny(maven_opts, {<<"g">>, <<"m">>, <<"k">>})
    THEN Add(acc, "BUILD_MAVEN_OPTS must end with g, m, or k")
    ELSE acc

\* if not target_dir.strip(): ... elif not target_dir.startswith((".", "/", "~/")): ...
TargetDirRule(acc, target_dir) ==
    IF Strip(target_dir) = <<>>
    THEN Add(acc, "BUILD_TARGET_DIR cannot be empty")
    ELSE IF ~StartsWithAny(target_dir, {<<".">>, <<"/">>, <<"~", "/">>})
         THEN Add(acc, "BUILD_TARGET_DIR must be an absolute path or start with ./")
         ELSE acc

\* build_config.py
BuildSection_validate(fields) ==
    Finish(
      TargetDirRule(
        MavenSuffixRule(
          MavenPrefixRule(
            BoolRules(
              OneOfRule(Begin, Lower(text(fields, "BUILD_MODE")), "BUILD_MODE", valid_modes),
              fields,
              <<"BUILD_CLEAN", "BUILD_PARALLEL", "BUILD_SKIP_TESTS",
                "BUILD_SKIP_LINT", "BUILD_SKIP_DOCS">>),
            text(fields, "BUILD_MAVEN_OPTS")),
          text(fields, "BUILD_MAVEN_OPTS")),
        text(fields, "BUILD_TARGET_DIR")))

\* str(n) for a natural number, as a string
RECURSIVE Str(_)
Str(n) ==
    IF n < 10 THEN AsciiDigits[n + 1]
    ELSE Str(n \div 10) \o AsciiDigits[(n % 10) + 1]

\* numeric_fields of MonitoringSection.validate: <<field, min_val, max_val, unit>>
numeric_fields ==
    << <<"MONITORING_INTERVAL", 1, 3600, "seconds">>,
       <<"MONITORING_RETENTION_DAYS", 1, 365, "days">>,
       <<"MONITORING_DISK_THRESHOLD", 0, 100, "percent">>,
       <<"MONITORING_MEMORY_THRESHOLD", 0, 100, "percent">>,
       <<"MONITORING_CPU_THRESHOLD", 0, 100, "percent">> >>

\* the range message of one entry of numeric_fields
NumericMessage(nf) ==
    nf[1] \o " must be between " \o Str(nf[2]) \o " and " \o Str(nf[3]) \o " " \o nf[4]

\* if not value.isdigit(): ... else: num_value = int(value); if not (min_val <= num_value <= max_val): ...
NumericRule(acc, value, nf) ==
    IF ~IsDigit(value) THEN Add(acc, nf[1] \o " must be a number")
    ELSE IF IntRaises(value) THEN Throw(acc, "ValueError")
    ELSE IF ~(nf[2] <= IntOf(value) /\ IntOf(value) <= nf[3])
         THEN Add(acc, NumericMessage(nf))
    ELSE acc

\* for field, (min_val, max_val, unit) in numeric_fields.items(): ...
RECURSIVE NumericRules(_, _, _)
NumericRules(acc, fields, nfs) ==
    IF nfs = <<>> THEN acc
    ELSE NumericRules(NumericRule(acc, text(fields, nfs[1][1]), nfs[1]), fields, Tail(nfs))

valid_log_levels == <<"debug", "info", "warning", "error", "critical">>

\* if email and '@' not in email: ...
EmailRule(acc, email) ==
    IF email # <<>> /\ ~Contains(email, <<"@">>)
    THEN Add(acc, "MONITORING_ALERT_EMAIL must be a valid email address")
    ELSE acc

\* if slack_url and not (slack_url.startswith("https://hooks.slack.com/") or not slack_url): ...
SlackRule(acc, slack_url) ==
    IF /\ slack_url # <<>>
       /\ ~(StartsWith(slack_url, <<"h", "t", "t", "p", "s", ":", "/", "/", "h", "o", "o", "k", "s", ".", "s", "l", "a", "c", "k", ".", "c", "o", "m", "/">>) \/ slack_url = <<>>)
    THEN Add(acc, "MONITORING_ALERT_SLACK must be a valid Slack webhook URL")
    ELSE acc

\* monitoring_config.py
MonitoringSection_validate(fields) ==
    Finish(
      SlackRule(
        EmailRule(
          OneOfRule(
            NumericRules(
              PortRule(
                BoolRule(Begin, fields, "MONITORING_ENABLED"),
                text(fields, "MONITORING_PORT"), "MONITORING_PORT"),
              fields, numeric_fields),
            Lower(text(fields, "MONITORING_LOG_LEVEL")),
            "MONITORING_LOG_LEVEL", valid_log_levels),
          text(fields, "MONITORING_ALERT_EMAIL")),
        text(fields, "MONITORING_ALERT_SLACK")))

(***************************************************************************)
(* The stand-alone section widgets of sections.py                          *)
(***************************************************************************)

\* sections.py, DataSourceSection._initialize_fields: the ConfigField of each key
DataSourceFieldConfigs ==
    << [ key |-> "CDM_SOURCE_NAME",
         default_value |-> <<"O", "H", "D", "S", "I", " ", "C", "D", "M", " ", "S", "o", "u", "r", "c", "e">>,
         options |-> <<>>,
         is_file_path |-> FALSE,
         is_secret |-> FALSE,
         validation_pattern |-> None ],
       [ key |-> "CDM_VERSION",
         default_value |-> <<"5", ".", "3">>,
         options |-> <<<<"5", ".", "3">>, <<"5", ".", "4">>>>,
         is_file_path |-> FALSE,
         is_secret |-> FALSE,
         validation_pattern |-> None ],
       [ key |-> "CDM_CONNECTIONDETAILS_DBMS",
         default_value |-> <<"p", "o", "s", "t", "g", "r", "e", "s", "q", "l">>,
         options |-> <<<<"p", "o", "s", "t", "g", "r", "e", "s", "q", "l">>, <<"o", "r", "a", "c", "l", "e">>, <<"s", "q", "l", "s", "e", "r", "v", "e", "r">>, <<"r", "e", "d", "s", "h", "i", "f", "t">>, <<"s", "n", "o", "w", "f", "l", "a", "k", "e">>>>,
         is_file_path |-> FALSE,
         is_secret |-> FALSE,
         validation_pattern |-> None ],
       [ key |-> "CDM_CONNECTIONDETAILS_SERVER",
         default_value |-> <<"l", "o", "c", "a", "l", "h", "o", "s", "t", "/", "p", "o", "s", "t", "g", "r", "e", "s">>,
         options |-> <<>>,
         is_file_path |-> FALSE,
         is_secret |-> FALSE,
         validation_pattern |-> None ],
       [ key |-> "CDM_CONNECTIONDETAILS_PORT",
         default_value |-> <<"5", "4", "3", "2">>,
         options |-> <<>>,
         is_file_path |-> FALSE,
         is_secret |-> FALSE,
         validation_pattern |-> Some("^\\d+$") ],
       [ key |-> "CDM_CONNECTIONDETAILS_USER",
         default_value |-> <<"p", "o", "s", "t", "g", "r", "e", "s">>,
         options |-> <<>>,
         is_file_path |-> FALSE,
         is_secret |-> FALSE,
         validation_pattern |-> None ],
       [ key |-> "CDM_CONNECTIONDETAILS_PASSWORD_FILE",
         default_value |-> <<".", "/", "s", "e", "c", "r", "e", "t", "s", "/", "c", "d", "m", "/", "C", "D", "M", "_", "P", "A", "S", "S", "W", "O", "R", "D">>,
         options |-> <<>>,
         is_file_path |-> TRUE,
         is_secret |-> TRUE,
         validation_pattern |-> None ],
       [ key |-> "CDM_DATABASE_SCHEMA",
         default_value |-> <<"c", "d", "m">>,
         options |-> <<>>,
         is_file_path |-> FALSE,
         is_secret |-> FALSE,
         validation_pattern |-> None ],
       [ key |-> "RESULTS_DATABASE_SCHEMA",
         default_value |-> <<"r", "e", "s", "u", "l", "t", "s">>,
         options |-> <<>>,
         is_file_path |-> FALSE,
         is_secret |-> FALSE,
         validation_pattern |-> None ],
       [ key |-> "TEMP_DATABASE_SCHEMA",
         default_value |-> <<"t", "e", "m", "p">>,
         options |-> <<>>,
         is_file_path |-> FALSE,
         is_secret |-> FALSE,
         validation_pattern |-> None ],
       [ key |-> "VOCAB_DATABASE_SCHEMA",
         default_value |-> <<"v", "o", "c", "a", "b">>,
         options |-> <<>>,
         is_file_path |-> FALSE,
         is_secret |-> FALSE,
         validation_pattern |-> None ],
       [ key |-> "VOCAB_PG_HOST",
         default_value |-> <<"l", "o", "c", "a", "l", "h", "o", "s", "t">>,
         options |-> <<>>,
         is_file_path |-> FALSE,
         is_secret |-> FALSE,
         validation_pattern |-> None ],
       [ key |-> "VOCAB_PG_DATABASE",
         default_value |-> <<"p", "o", "s", "t", "g", "r", "e", "s">>,
         options |-> <<>>,
         is_file_path |-> FALSE,
         is_secret |-> FALSE,
         validation_pattern |-> None ],
       [ key |-> "VOCAB_PG_SCHEMA",
         default_value |-> <<"v", "o", "c", "a", "b">>,
         options |-> <<>>,
         is_file_path |-> FALSE,
         is_secret |-> FALSE,
         validation_pattern |-> None ],
       [ key |-> "VOCAB_PG_USER",
         default_value |-> <<"p", "o", "s", "t", "g", "r", "e", "s">>,
         options |-> <<>>,
         is_file_path |-> FALSE,
         is_secret |-> FALSE,
         validation_pattern |-> None ],
       [ key |-> "VOCAB_PG_PASSWORD_FILE",
         default_value |-> <<".", "/", "s", "e", "c", "r", "e", "t", "s", "/", "v", "o", "c", "a", "b", "/", "V", "O", "C", "A", "B", "_", "P", "A", "S", "S", "W", "O", "R", "D">>,
         options |-> <<>>,
         is_file_path |-> TRUE,
         is_secret |-> TRUE,
         validation_pattern |-> None ],
       [ key |-> "VOCAB_PG_FILES_PATH",
         default_value |-> <<".", "/", "v", "o", "c", "a", "b", "/", "f", "i", "l", "e", "s">>,
         options |-> <<>>,
         is_file_path |-> TRUE,
         is_secret |-> FALSE,
         validation_pattern |-> None ],
       [ key |-> "UMLS_API_KEY_FILE",
         default_value |-> <<".", "/", "s", "e", "c", "r", "e", "t", "s", "/", "v", "o", "c", "a", "b", "/", "U", "M", "L", "S", "_", "A", "P", "I", "_", "K", "E", "Y">>,
         options |-> <<>>,
         is_file_path |-> TRUE,
         is_secret |-> TRUE,
         validation_pattern |-> None ] >>

\* sections.py, MonitoringSection._initialize_fields: the ConfigField of each key
MonitoringFieldConfigs ==
    << [ key |-> "LOG_LEVEL",
         default_value |-> <<"I", "N", "F", "O">>,
         options |-> <<<<"D", "E", "B", "U", "G">>, <<"I", "N", "F", "O">>, <<"W", "A", "R", "N">>, <<"E", "R", "R", "O", "R">>>>,
         is_file_path |-> FALSE,
         validation_pattern |-> None,
         is_numeric |-> FALSE,
         min_value |-> None,
         max_value |-> None ],
       [ key |-> "LOG_FORMAT",
         default_value |-> <<"j", "s", "o", "n">>,
         options |-> <<<<"j", "s", "o", "n">>, <<"t", "e", "x", "t">>, <<"c", "s", "v">>>>,
         is_file_path |-> FALSE,
         validation_pattern |-> None,
         is_numeric |-> FALSE,
         min_value |-> None,
         max_value |-> None ],
       [ key |-> "LOG_PATH",
         default_value |-> <<".", "/", "l", "o", "g", "s">>,
         options |-> <<>>,
         is_file_path |-> TRUE,
         validation_pattern |-> None,
         is_numeric |-> FALSE,
         min_value |-> None,
         max_value |-> None ],
       [ key |-> "LOG_RETENTION_DAYS",
         default_value |-> <<"3", "0">>,
         options |-> <<>>,
         is_file_path |-> FALSE,
         validation_pattern |-> None,
         is_numeric |-> TRUE,
         min_value |-> Some(1),
         max_value |-> Some(365) ],
       [ key |-> "LOG_MAX_SIZE",
         default_value |-> <<"1", "0", "0">>,
         options |-> <<>>,
         is_file_path |-> FALSE,
         validation_pattern |-> None,
         is_numeric |-> TRUE,
         min_value |-> Some(1),
         max_value |-> Some(1000) ],
       [ key |-> "ENABLE_METRICS",
         default_value |-> <<"t", "r", "u", "e">>,
         options |-> <<<<"t", "r", "u", "e">>, <<"f", "a", "l", "s", "e">>>>,
         is_file_path |-> FALSE,
         validation_pattern |-> None,
         is_numeric |-> FALSE,
         min_value |-> None,
         max_value |-> None ],
       [ key |-> "METRICS_PORT",
         default_value |-> <<"9", "0", "9", "0">>,
         options |-> <<>>,
         is_file_path |-> FALSE,
         validation_pattern |-> Some("^\\d+$"),
         is_numeric |-> TRUE,
         min_value |-> Some(1024),
         max_value |-> Some(65535) ],
       [ key |-> "ENABLE_HEALTH_CHECK",
         default_value |-> <<"t", "r", "u", "e">>,
         options |-> <<<<"t", "r", "u", "e">>, <<"f", "a", "l", "s", "e">>>>,
         is_file_path |-> FALSE,
         validation_pattern |-> None,
         is_numeric |-> FALSE,
         min_value |-> None,
         max_value |-> None ],
       [ key |-> "HEALTH_CHECK_PATH",
         default_value |-> <<"/", "h", "e", "a", "l", "t", "h">>,
         options |-> <<>>,
         is_file_path |-> FALSE,
         validation_pattern |-> None,
         is_numeric |-> FALSE,
         min_value |-> None,
         max_value |-> None ],
       [ key |-> "ENABLE_TRACING",
         default_value |-> <<"f", "a", "l", "s", "e">>,
         options |-> <<<<"t", "r", "u", "e">>, <<"f", "a", "l", "s", "e">>>>,
         is_file_path |-> FALSE,
         validation_pattern |-> None,
         is_numeric |-> FALSE,
         min_value |-> None,
         max_value |-> None ],
       [ key |-> "TRACING_SAMPLE_RATE",
         default_value |-> <<"0", ".", "1">>,
         options |-> <<>>,
         is_file_path |-> FALSE,
         validation_pattern |-> Some("^0(\\.\\d+)?|1(\\.0)?$"),
         is_numeric |-> FALSE,
         min_value |-> None,
         max_value |-> None ],
       [ key |-> "ENABLE_USAGE_STATS",
         default_value |-> <<"t", "r", "u", "e">>,
         options |-> <<<<"t", "r", "u", "e">>, <<"f", "a", "l", "s", "e">>>>,
         is_file_path |-> FALSE,
         validation_pattern |-> None,
         is_numeric |-> FALSE,
         min_value |-> None,
         max_value |-> None ],
       [ key |-> "ANALYTICS_DB_PATH",
         default_value |-> <<".", "/", "a", "n", "a", "l", "y", "t", "i", "c", "s", "/", "d", "b">>,
         options |-> <<>>,
         is_file_path |-> TRUE,
         validation_pattern |-> None,
         is_numeric |-> FALSE,
         min_value |-> None,
         max_value |-> None ],
       [ key |-> "ANALYTICS_RETENTION_MONTHS",
         default_value |-> <<"1", "2">>,
         options |-> <<>>,
         is_file_path |-> FALSE,
         validation_pattern |-> None,
         is_numeric |-> TRUE,
         min_value |-> Some(1),
         max_value |-> Some(60) ] >>

\* self.section.fields[field_name]
ConfigOf(configs, key) ==
    configs[CHOOSE i \in 1..Len(configs) : configs[i].key = key]

\* self.input_widgets after setup_ui: each widget showing its default value
InputWidgets(configs, order) ==
    [i \in 1..Len(order) |-> <<<<order[i]>>, ConfigOf(configs, order[i]).default_value>>]

\* add_cdm_connection_group, add_schema_config_group, add_vocab_config_group
DataSourceInputOrder ==
    << "CDM_SOURCE_NAME", "CDM_VERSION", "CDM_CONNECTIONDETAILS_DBMS",
       "CDM_CONNECTIONDETAILS_SERVER", "CDM_CONNECTIONDETAILS_PORT",
       "CDM_CONNECTIONDETAILS_USER", "CDM_CONNECTIONDETAILS_PASSWORD_FILE",
       "CDM_DATABASE_SCHEMA", "RESULTS_DATABASE_SCHEMA", "TEMP_DATABASE_SCHEMA",
       "VOCAB_DATABASE_SCHEMA",
       "VOCAB_PG_HOST", "VOCAB_PG_DATABASE", "VOCAB_PG_SCHEMA", "VOCAB_PG_USER",
       "VOCAB_PG_PASSWORD_FILE", "VOCAB_PG_FILES_PATH", "UMLS_API_KEY_FILE" >>

\* add_logging_group, add_monitoring_group, add_analytics_group
MonitoringInputOrder ==
    << "LOG_LEVEL", "LOG_FORMAT", "LOG_PATH", "LOG_RETENTION_DAYS", "LOG_MAX_SIZE",
       "ENABLE_METRICS", "METRICS_PORT", "ENABLE_HEALTH_CHECK", "HEALTH_CHECK_PATH",
       "ENABLE_TRACING", "TRACING_SAMPLE_RATE",
       "ENABLE_USAGE_STATS", "ANALYTICS_DB_PATH", "ANALYTICS_RETENTION_MONTHS" >>

\* the widget add_field makes for a field
WidgetKind(cfg) ==
    IF "is_numeric" \in DOMAIN cfg /\ cfg.is_numeric THEN "QSpinBox"
    ELSE IF cfg.options # <<>> THEN "QComboBox"
    ELSE "QLineEdit"

\* s without the one "\n" that $ lets a match end before
BeforeFinalNewline(s) ==
    IF s # <<>> /\ s[Len(s)] = "\n" THEN SubSeq(s, 1, Len(s) - 1) ELSE s

\* \w of a str pattern: a character str.isalnum accepts, or "_"
IsWord(c) == IsAlnum(<<c>>) \/ c = "_"

\* [\w\-\.]
IsHostChar(c) == IsWord(c) \/ c \in {"-", "."}

\* [\w\-]
IsNameChar(c) == IsWord(c) \/ c = "-"

\* where the longest run of characters of a class that starts at s[i] ends:
\* the index after its last character
RunEnd(s, i, InClass(_)) ==
    IF i > Len(s) THEN i
    ELSE CHOOSE j \in i..(Len(s) + 1) :
             /\ j = Len(s) + 1 \/ ~InClass(s[j])
             /\ \A k \in i..(j - 1) : InClass(s[k])

\* s[i] is the character c
CharAt(s, i, c) == i <= Len(s) /\ s[i] = c

\* :\d+\/ matches at s[i], after a host that started at s[h]: the index
\* after the "/", or 0 when there is no match
PortEnd(s, h, i, j) ==
    IF h < i /\ CharAt(s, i, ":") /\ i + 1 < j /\ CharAt(s, j, "/") THEN j + 1 ELSE 0

\* [\w\-\.]+:\d+\/ matches at s[h]: the index after the "/", or 0
HostPortEnd(s, h, i) == PortEnd(s, h, i, RunEnd(s, i + 1, IsAsciiDigit))

AfterHostPort(s, h) == HostPortEnd(s, h, RunEnd(s, h, IsHostChar))

\* the text before s[i] is p, and [\w\-\.]+:\d+\/ matches from s[i] on: the
\* index after the "/", or 0
AfterScheme(s, p) == IF StartsWith(s, p) THEN AfterHostPort(s, Len(p) + 1) ELSE 0

\* ^jdbc:(postgresql|mysql|sqlserver|oracle):\/\/[\w\-\.]+:\d+\/[\w\-]+
JdbcSchemes ==
    { <<"j", "d", "b", "c", ":">> \o dbms \o <<":", "/", "/">> :
        dbms \in { <<"p", "o", "s", "t", "g", "r", "e", "s", "q", "l">>,
                   <<"m", "y", "s", "q", "l">>,
                   <<"s", "q", "l", "s", "e", "r", "v", "e", "r">>,
                   <<"o", "r", "a", "c", "l", "e">> } }

JdbcMatch(value) ==
    \E p \in JdbcSchemes :
        /\ AfterScheme(value, p) # 0
        /\ AfterScheme(value, p) <= Len(value)
        /\ IsNameChar(value[AfterScheme(value, p)])

\* ^https?:\/\/[\w\-\.]+:\d+\/.*$
HttpSchemes ==
    { <<"h", "t", "t", "p", ":", "/", "/">>, <<"h", "t", "t", "p", "s", ":", "/", "/">> }

HttpMatch(value) ==
    \E p \in HttpSchemes :
        /\ AfterScheme(value, p) # 0
        /\ \A k \in AfterScheme(value, p)..Len(BeforeFinalNewline(value)) : value[k] # "\n"

\* ^https:\/\/github\.com\/[\w-]+\/[\w-]+(\.git)?(#[\w\.-]+)?$
GithubPrefix ==
    <<"h", "t", "t", "p", "s", ":", "/", "/", "g", "i", "t", "h", "u", "b", ".", "c", "o", "m", "/">>

\* $ matches at s[i]: at the end, or before a final "\n"
AtEnd(s, i) == i = Len(s) + 1 \/ (i = Len(s) /\ s[i] = "\n")

\* (#[\w\.-]+)? matched at s[i]: the index after it
RefEnd(s, i) ==
    IF CharAt(s, i, "#") /\ RunEnd(s, i + 1, IsHostChar) > i + 1
    THEN RunEnd(s, i + 1, IsHostChar) ELSE i

\* (\.git)? matched at s[i]: the index after it
GitEnd(s, i) == IF At(s, i, <<".", "g", "i", "t">>) THEN i + 4 ELSE i

\* [\w-]+ matched at s[i]: the index after it, or 0.  No character that may
\* follow the run in the pattern is in the class, so the run is the longest.
NameEnd(s, i) == IF i # 0 /\ RunEnd(s, i, IsNameChar) > i THEN RunEnd(s, i, IsNameChar) ELSE 0

\* \/[\w-]+ matched at s[i], the end of the owner: the index after the
\* repository, or 0
RepoEnd(s, i) == IF i # 0 /\ CharAt(s, i, "/") THEN NameEnd(s, i + 1) ELSE 0

GithubMatch(value) ==
    /\ StartsWith(value, GithubPrefix)
    /\ RepoEnd(value, NameEnd(value, Len(GithubPrefix) + 1)) # 0
    /\ AtEnd(value, RefEnd(value, GitEnd(value,
                 RepoEnd(value, NameEnd(value, Len(GithubPrefix) + 1)))))

\* \d+$ matches the whole of the value
DigitsMatch(v) == v # <<>> /\ \A i \in 1..Len(v) : IsAsciiDigit(v[i])

\* re.match(pattern, value) finds a match, for the patterns of the source
ReMatch(pattern, value) ==
    IF pattern = "^\\d+$"
    THEN LET v == BeforeFinalNewline(value)
         IN  v # <<>> /\ \A i \in 1..Len(v) : IsAsciiDigit(v[i])
    ELSE IF pattern = "^0(\\.\\d+)?|1(\\.0)?$"
    THEN \/ StartsWith(value, <<"0">>)
         \/ BeforeFinalNewline(value) \in {<<"1">>, <<"1", ".", "0">>}
    ELSE IF pattern = "^-1|\\d+$"
    THEN StartsWith(value, <<"-", "1">>) \/ DigitsMatch(BeforeFinalNewline(value))
    ELSE IF pattern = "^jdbc:(postgresql|mysql|sqlserver|oracle):\\/\\/[\\w\\-\\.]+:\\d+\\/[\\w\\-]+"
    THEN JdbcMatch(value)
    ELSE IF pattern = "^https?:\\/\\/[\\w\\-\\.]+:\\d+\\/.*$"
    THEN HttpMatch(value)
    ELSE IF pattern = "^https:\\/\\/github\\.com\\/[\\w-]+\\/[\\w-]+(\\.git)?(#[\\w\\.-]+)?$"
    THEN GithubMatch(value)
    ELSE FALSE

\* os.path.dirname(p)
Dirname(p) ==
    LET slashes == Positions(p, "/")
        head    == IF slashes = {} THEN <<>> ELSE SubSeq(p, 1, Max(slashes))
    IN  IF head # <<>> /\ \E i \in 1..Len(head) : head[i] # "/"
        THEN SubSeq(head, 1, Max({i \in 1..Len(head) : head[i] # "/"}))
        ELSE head

\* os.path.exists(p), dirs being the directories that exist
Exists(dirs, p) == p \in dirs

\* ASCII digits that single underscores may separate (or nothing)
DigitGroups(s) ==
    /\ \A i \in 1..Len(s) : IsAsciiDigit(s[i]) \/ s[i] = "_"
    /\ s # <<>> => s[1] # "_" /\ s[Len(s)] # "_"
    /\ \A i \in 1..(Len(s) - 1) : ~(s[i] = "_" /\ s[i + 1] = "_")

RECURSIVE Pow10(_)
Pow10(n) == IF n = 0 THEN 1 ELSE 10 * Pow10(n - 1)

\* float(s) reads, between optional whitespace, an optional sign and then
\* inf, infinity or nan, or digits with an optional fraction and an optional
\* exponent.  The result tells whether float raises ValueError and, if not,
\* the number: nan, or the signed quotient num / den (den = 0: an infinity).
\* Each operator below reads one part and hands the rest on.
FloatNumber(neg, digits, places, e) ==
    [raises |-> FALSE, nan |-> FALSE, neg |-> neg,
     num |-> IF e > 0 THEN digits * Pow10(e) ELSE digits,
     den |-> IF e < 0 THEN Pow10(places - e) ELSE Pow10(places)]

FloatDigits(neg, int, frac, expo) ==
    IF /\ DigitGroups(int)
       /\ DigitGroups(frac)
       /\ int # <<>> \/ frac # <<>>
       /\ expo = Strip(expo)
       /\ ~IntRaises(expo)
    THEN FloatNumber(neg, DigitsValue(Without(int \o frac, "_")),
                     Len(Without(frac, "_")), IntOf(expo))
    ELSE [raises |-> TRUE, nan |-> FALSE, neg |-> FALSE, num |-> 0, den |-> 1]

FloatFraction(neg, mant, dots, expo) ==
    IF dots = {} THEN FloatDigits(neg, mant, <<>>, expo)
    ELSE FloatDigits(neg, SubSeq(mant, 1, Min(dots) - 1),
                     SubSeq(mant, Min(dots) + 1, Len(mant)), expo)

FloatExponent(neg, body, es) ==
    IF es = {} THEN FloatFraction(neg, body, Positions(body, "."), <<"0">>)
    ELSE FloatFraction(neg, SubSeq(body, 1, Min(es) - 1),
                       Positions(SubSeq(body, 1, Min(es) - 1), "."),
                       SubSeq(body, Min(es) + 1, Len(body)))

FloatWord(neg, body, word) ==
    IF word \in {"inf", "infinity", "nan"}
    THEN [raises |-> FALSE, nan |-> word = "nan", neg |-> neg, num |-> 1, den |-> 0]
    ELSE FloatExponent(neg, body, {i \in 1..Len(body) : body[i] \in {"e", "E"}})

FloatUnsigned(neg, body) == FloatWord(neg, body, AsString(Lower(body)))

FloatSigned(t) ==
    IF t # <<>> /\ t[1] \in {"+", "-"}
    THEN FloatUnsigned(t[1] = "-", Tail(t))
    ELSE FloatUnsigned(FALSE, t)

float(s) == FloatSigned(Strip(s))

\* x < n and x > n for a float x and an integer n
FloatLess(x, n) ==
    /\ ~x.nan
    /\ IF x.den = 0 THEN x.neg
       ELSE (IF x.neg THEN 0 - x.num ELSE x.num) < n * x.den

FloatMore(x, n) ==
    /\ ~x.nan
    /\ IF x.den = 0 THEN ~x.neg
       ELSE (IF x.neg THEN 0 - x.num ELSE x.num) > n * x.den

\* Required field check
WidgetRequiredRule(acc, cfg, value, secret_may_be_empty) ==
    IF value = <<>> /\ ~(secret_may_be_empty /\ cfg.is_secret)
    THEN Add(acc, cfg.key \o " is required") ELSE acc

\* Pattern validation
PatternRule(acc, cfg, value) ==
    IF /\ cfg.validation_pattern # None
       /\ value # <<>>
       /\ ~ReMatch(cfg.validation_pattern[1], value)
    THEN Add(acc, cfg.key \o " has invalid format") ELSE acc

\* File path validation, parent_dir being os.path.dirname(value)
PathRule(acc, cfg, value, parent_dir, dirs) ==
    IF cfg.is_file_path /\ value # <<>> /\ ~Exists(dirs, parent_dir)
    THEN Add(acc, "Directory for " \o cfg.key \o " does not exist: " \o AsString(parent_dir))
    ELSE acc

\* the checks every field of a widget goes through: required, pattern, path
CommonRules(acc, cfg, value, dirs, secret_may_be_empty) ==
    PathRule(PatternRule(WidgetRequiredRule(acc, cfg, value, secret_may_be_empty), cfg, value),
             cfg, value, Dirname(value), dirs)

\* Port number validation
CdmPortRule(acc, cfg, value) ==
    IF cfg.key = "CDM_CONNECTIONDETAILS_PORT"
    THEN IF IntRaises(value) THEN Add(acc, "Port must be a number")
         ELSE IF IntOf(value) < 1 \/ IntOf(value) > 65535
              THEN Add(acc, "Port number must be between 1 and 65535")
              ELSE acc
    ELSE acc

\* one turn of the loop of DataSourceConfigWidget.validate
DataSourceFieldRules(acc, cfg, value, dirs) ==
    CdmPortRule(CommonRules(acc, cfg, value, dirs, TRUE), cfg, value)

\* for field_name, widget in self.input_widgets.items(): ...
RECURSIVE DataSourceLoop(_, _, _)
DataSourceLoop(acc, widgets, dirs) ==
    IF widgets = <<>> THEN acc
    ELSE DataSourceLoop(
             DataSourceFieldRules(acc, ConfigOf(DataSourceFieldConfigs, widgets[1][1][1]),
                                  widgets[1][2], dirs),
             Tail(widgets), dirs)

\* DataSourceConfigWidget.validate
DataSourceConfigWidget_validate(widgets, dirs) ==
    Finish(DataSourceLoop(Begin, widgets, dirs))

\* if field_config.min_value is not None and num_value < field_config.min_value: ...
MinRule(acc, cfg, x) ==
    IF cfg.min_value # None /\ FloatLess(x, cfg.min_value[1])
    THEN Add(acc, cfg.key \o " must be at least " \o Str(cfg.min_value[1]))
    ELSE acc

\* if field_config.max_value is not None and num_value > field_config.max_value: ...
MaxRule(acc, cfg, x) ==
    IF cfg.max_value # None /\ FloatMore(x, cfg.max_value[1])
    THEN Add(acc, cfg.key \o " must be no more than " \o Str(cfg.max_value[1]))
    ELSE acc

\* Numeric validation, x being float(value)
WidgetNumericRule(acc, cfg, value, x) ==
    IF cfg.is_numeric /\ value # <<>>
    THEN IF x.raises THEN Add(acc, cfg.key \o " must be a number")
         ELSE MaxRule(MinRule(acc, cfg, x), cfg, x)
    ELSE acc

\* Special validations, x being float(value)
SpecialRules(acc, cfg, value, x) ==
    IF cfg.key = "METRICS_PORT"
    THEN IF IntRaises(value) THEN Throw(acc, "ValueError")
         ELSE IF IntOf(value) < 1024 \/ IntOf(value) > 65535
              THEN Add(acc, "Metrics port must be between 1024 and 65535")
              ELSE acc
    ELSE IF cfg.key = "TRACING_SAMPLE_RATE"
    THEN IF x.raises THEN Add(acc, "Invalid tracing sample rate")
         ELSE IF FloatLess(x, 0) \/ FloatMore(x, 1)
              THEN Add(acc, "Tracing sample rate must be between 0.0 and 1.0")
              ELSE acc
    ELSE acc

\* one turn of the loop of MonitoringConfigWidget.validate_config
MonitoringFieldRules(acc, cfg, value, dirs) ==
    SpecialRules(
        WidgetNumericRule(CommonRules(acc, cfg, value, dirs, FALSE), cfg, value, float(value)),
        cfg, value, float(value))

RECURSIVE MonitoringLoop(_, _, _)
MonitoringLoop(acc, widgets, dirs) ==
    IF widgets = <<>> THEN acc
    ELSE MonitoringLoop(
             MonitoringFieldRules(acc, ConfigOf(MonitoringFieldConfigs, widgets[1][1][1]),
                                  widgets[1][2], dirs),
             Tail(widgets), dirs)

\* what a handler that ends by showing a message box showed
Warning(title, issues) == [kind |-> "QMessageBox.warning", title |-> title, value |-> issues]

Information(title, body) == [kind |-> "QMessageBox.information", title |-> title, value |-> <<body>>]

\* MonitoringConfigWidget.validate_config
MonitoringConfigWidget_validate_config(widgets, dirs) ==
    LET acc == MonitoringLoop(Begin, widgets, dirs)
    IN  IF acc.raised # None THEN Raised(acc.raised[1])
        ELSE IF acc.issues # <<>> THEN Warning("Validation Issues", acc.issues)
        ELSE Information("Validation Success",
                         "All monitoring configuration values are valid!")

\* QSpinBox.setValue keeps the value within the minimum and maximum add_field set
SpinValue(cfg, n) ==
    LET lo == IF cfg.min_value # None /\ cfg.min_value[1] # 0 THEN cfg.min_value[1] ELSE 0
        hi == IF cfg.max_value # None /\ cfg.max_value[1] # 0 THEN cfg.max_value[1] ELSE 99999
    IN  IF n < lo THEN lo ELSE IF n > hi THEN hi ELSE n

\* str(n) for a natural number, as a text
RECURSIVE StrText(_)
StrText(n) ==
    IF n < 10 THEN <<AsciiDigits[n + 1]>>
    ELSE Append(StrText(n \div 10), AsciiDigits[(n % 10) + 1])

default_ports ==
    << <<<<"p", "o", "s", "t", "g", "r", "e", "s", "q", "l">>, <<"5", "4", "3", "2">>>>,
       <<<<"o", "r", "a", "c", "l", "e">>, <<"1", "5", "2", "1">>>>,
       <<<<"s", "q", "l", "s", "e", "r", "v", "e", "r">>, <<"1", "4", "3", "3">>>>,
       <<<<"r", "e", "d", "s", "h", "i", "f", "t">>, <<"5", "4", "3", "9">>>>,
       <<<<"s", "n", "o", "w", "f", "l", "a", "k", "e">>, <<"4", "4", "3">>>> >>

\* DataSourceConfigWidget.on_dbms_changed
on_dbms_changed(widgets, dbms) ==
    IF DictHas(widgets, <<"CDM_CONNECTIONDETAILS_PORT">>)
    THEN DictSet(widgets, <<"CDM_CONNECTIONDETAILS_PORT">>, DictGetOr(default_ports, dbms, <<>>))
    ELSE widgets

(***************************************************************************)
(* WebAPIConfigWidget of sections.py                                       *)
(***************************************************************************)

\* sections.py, WebAPISection._initialize_fields: the ConfigField of each key
WebAPIFieldConfigs ==
    << [ key |-> "FLYWAY_BASELINE_ON_MIGRATE",
         default_value |-> <<"t", "r", "u", "e">>,
         options |-> <<<<"t", "r", "u", "e">>, <<"f", "a", "l", "s", "e">>>>,
         is_file_path |-> FALSE,
         is_secret |-> FALSE,
         validation_pattern |-> None ],
       [ key |-> "WEBAPI_LOGGING_LEVEL_ROOT",
         default_value |-> <<"i", "n", "f", "o">>,
         options |-> <<<<"t", "r", "a", "c", "e">>, <<"d", "e", "b", "u", "g">>, <<"i", "n", "f", "o">>, <<"w", "a", "r", "n">>, <<"e", "r", "r", "o", "r">>>>,
         is_file_path |-> FALSE,
         is_secret |-> FALSE,
         validation_pattern |-> None ],
       [ key |-> "WEBAPI_LOGGING_LEVEL_ORG_OHDSI",
         default_value |-> <<"i", "n", "f", "o">>,
         options |-> <<<<"t", "r", "a", "c", "e">>, <<"d", "e", "b", "u", "g">>, <<"i", "n", "f", "o">>, <<"w", "a", "r", "n">>, <<"e", "r", "r", "o", "r">>>>,
         is_file_path |-> FALSE,
         is_secret |-> FALSE,
         validation_pattern |-> None ],
       [ key |-> "WEBAPI_LOGGING_LEVEL_ORG_APACHE_SHIRO",
         default_value |-> <<"w", "a", "r", "n">>,
         options |-> <<<<"t", "r", "a", "c", "e">>, <<"d", "e", "b", "u", "g">>, <<"i", "n", "f", "o">>, <<"w", "a", "r", "n">>, <<"e", "r", "r", "o", "r">>>>,
         is_file_path |-> FALSE,
         is_secret |-> FALSE,
         validation_pattern |-> None ],
       [ key |-> "WEBAPI_DATASOURCE_URL",
         default_value |-> <<"j", "d", "b", "c", ":", "p", "o", "s", "t", "g", "r", "e", "s", "q", "l", ":", "/", "/", "b", "r", "o", "a", "d", "s", "e", "a", "-", "a", "t", "l", "a", "s", "d", "b", ":", "5", "4", "3", "2", "/", "p", "o", "s", "t", "g", "r", "e", "s">>,
         options |-> <<>>,
         is_file_path |-> FALSE,
         is_secret |-> FALSE,
         validation_pattern |-> Some("^jdbc:(postgresql|mysql|sqlserver|oracle):\\/\\/[\\w\\-\\.]+:\\d+\\/[\\w\\-]+") ],
       [ key |-> "WEBAPI_DATASOURCE_USERNAME",
         default_value |-> <<"p", "o", "s", "t", "g", "r", "e", "s">>,
         options |-> <<>>,
         is_file_path |-> FALSE,
         is_secret |-> FALSE,
         validation_pattern |-> None ],
       [ key |-> "WEBAPI_DATASOURCE_PASSWORD_FILE",
         default_value |-> <<".", "/", "s", "e", "c", "r", "e", "t", "s", "/", "w", "e", "b", "a", "p", "i", "/", "W", "E", "B", "A", "P", "I", "_", "D", "A", "T", "A", "S", "O", "U", "R", "C", "E", "_", "P", "A", "S", "S", "W", "O", "R", "D">>,
         options |-> <<>>,
         is_file_path |-> TRUE,
         is_secret |-> TRUE,
         validation_pattern |-> None ],
       [ key |-> "WEBAPI_DATASOURCE_OHDSI_SCHEMA",
         default_value |-> <<"w", "e", "b", "a", "p", "i">>,
         options |-> <<>>,
         is_file_path |-> FALSE,
         is_secret |-> FALSE,
         validation_pattern |-> None ],
       [ key |-> "WEBAPI_ADDITIONAL_JDBC_FILE_PATH",
         default_value |-> <<".", ".", "/", "j", "d", "b", "c", "/", "n", "o", "n", "e", ".", "j", "a", "r">>,
         options |-> <<>>,
         is_file_path |-> TRUE,
         is_secret |-> FALSE,
         validation_pattern |-> None ],
       [ key |-> "WEBAPI_CACERTS_FILE",
         default_value |-> <<".", ".", "/", "c", "a", "c", "e", "r", "t", "s">>,
         options |-> <<>>,
         is_file_path |-> TRUE,
         is_secret |-> FALSE,
         validation_pattern |-> None ],
       [ key |-> "CACHE_GENERATION_INVALIDAFTERDAYS",
         default_value |-> <<"3", "0">>,
         options |-> <<>>,
         is_file_path |-> FALSE,
         is_secret |-> FALSE,
         validation_pattern |-> Some("^-1|\\d+$") ],
       [ key |-> "CACHE_GENERATION_CLEANUPINTERVAL",
         default_value |-> <<"3", "6", "0", "0", "0", "0", "0">>,
         options |-> <<>>,
         is_file_path |-> FALSE,
         is_secret |-> FALSE,
         validation_pattern |-> Some("^\\d+$") ],
       [ key |-> "I18N_ENABLED",
         default_value |-> <<"t", "r", "u", "e">>,
         options |-> <<<<"t", "r", "u", "e">>, <<"f", "a", "l", "s", "e">>>>,
         is_file_path |-> FALSE,
         is_secret |-> FALSE,
         validation_pattern |-> None ],
       [ key |-> "EXECUTIONENGINE_URL",
         default_value |-> <<"h", "t", "t", "p", ":", "/", "/", "b", "r", "o", "a", "d", "s", "e", "a", "-", "a", "r", "a", "c", "h", "n", "e", "-", "e", "x", "e", "c", "u", "t", "i", "o", "n", "-", "e", "n", "g", "i", "n", "e", ":", "8", "8", "8", "8", "/", "a", "p", "i", "/", "v", "1">>,
         options |-> <<>>,
         is_file_path |-> FALSE,
         is_secret |-> FALSE,
         validation_pattern |-> Some("^https?:\\/\\/[\\w\\-\\.]+:\\d+\\/.*$") ],
       [ key |-> "WEBAPI_CDM_SNOWFLAKE_PRIVATE_KEY_FILE",
         default_value |-> <<".", "/", "s", "e", "c", "r", "e", "t", "s", "/", "w", "e", "b", "a", "p", "i", "/", "C", "D", "M", "_", "S", "N", "O", "W", "F", "L", "A", "K", "E", "_", "P", "R", "I", "V", "A", "T", "E", "_", "K", "E", "Y">>,
         options |-> <<>>,
         is_file_path |-> TRUE,
         is_secret |-> TRUE,
         validation_pattern |-> None ] >>

\* setup_ui: the four subsections, in the order of add_subsection
WebAPIInputOrder ==
    << "WEBAPI_DATASOURCE_URL", "WEBAPI_DATASOURCE_USERNAME",
       "WEBAPI_DATASOURCE_PASSWORD_FILE", "WEBAPI_DATASOURCE_OHDSI_SCHEMA",
       "WEBAPI_LOGGING_LEVEL_ROOT", "WEBAPI_LOGGING_LEVEL_ORG_OHDSI",
       "WEBAPI_LOGGING_LEVEL_ORG_APACHE_SHIRO",
       "CACHE_GENERATION_INVALIDAFTERDAYS", "CACHE_GENERATION_CLEANUPINTERVAL",
       "FLYWAY_BASELINE_ON_MIGRATE", "I18N_ENABLED", "EXECUTIONENGINE_URL",
       "WEBAPI_ADDITIONAL_JDBC_FILE_PATH", "WEBAPI_CACERTS_FILE",
       "WEBAPI_CDM_SNOWFLAKE_PRIVATE_KEY_FILE" >>

\* try: n = int(value); if n < least: ... except ValueError: ...
AtLeastRule(acc, value, least, too_small, not_a_number) ==
    IF IntRaises(value) THEN Add(acc, not_a_number)
    ELSE IF IntOf(value) < least THEN Add(acc, too_small)
    ELSE acc

\* Specific validations
CacheRules(acc, cfg, value) ==
    IF cfg.key = "CACHE_GENERATION_INVALIDAFTERDAYS"
    THEN AtLeastRule(acc, value, -1, "Cache invalidation days must be -1 or greater",
                     "Cache invalidation days must be a number")
    ELSE IF cfg.key = "CACHE_GENERATION_CLEANUPINTERVAL"
    THEN AtLeastRule(acc, value, 1000, "Cache cleanup interval must be at least 1000ms",
                     "Cache cleanup interval must be a number")
    ELSE acc

\* for field_name, widget in self.input_widgets.items(): ...
RECURSIVE WebAPILoop(_, _, _)
WebAPILoop(acc, widgets, dirs) ==
    IF widgets = <<>> THEN acc
    ELSE WebAPILoop(
             CacheRules(CommonRules(acc, ConfigOf(WebAPIFieldConfigs, widgets[1][1][1]),
                                    widgets[1][2], dirs, TRUE),
                        ConfigOf(WebAPIFieldConfigs, widgets[1][1][1]), widgets[1][2]),
             Tail(widgets), dirs)

\* WebAPIConfigWidget.validate
WebAPIConfigWidget_validate(widgets, dirs) ==
    Finish(WebAPILoop(Begin, widgets, dirs))

(***************************************************************************)
(* sections.py: BuildConfigWidget                                          *)
(***************************************************************************)

\* BuildSection._initialize_fields: the ConfigField of each key
BuildFieldConfigs ==
    << [ key |-> "ATLAS_GITHUB_URL",
         default_value |-> <<"h", "t", "t", "p", "s", ":", "/", "/", "g", "i", "t", "h", "u", "b", ".", "c", "o", "m", "/", "O", "H", "D", "S", "I", "/", "A", "t", "l", "a", "s", ".", "g", "i", "t", "#", "m", "a", "s", "t", "e", "r">>,
         options |-> <<>>,
         validation_pattern |-> Some("^https:\\/\\/github\\.com\\/[\\w-]+\\/[\\w-]+(\\.git)?(#[\\w\\.-]+)?$"),
         build_type |-> "atlas" ],
       [ key |-> "ATLAS_BUILD_FROM_GIT",
         default_value |-> <<"f", "a", "l", "s", "e">>,
         options |-> <<<<"t", "r", "u", "e">>, <<"f", "a", "l", "s", "e">>>>,
         validation_pattern |-> None,
         build_type |-> "atlas" ],
       [ key |-> "WEBAPI_GITHUB_URL",
         default_value |-> <<"h", "t", "t", "p", "s", ":", "/", "/", "g", "i", "t", "h", "u", "b", ".", "c", "o", "m", "/", "O", "H", "D", "S", "I", "/", "W", "e", "b", "A", "P", "I", ".", "g", "i", "t", "#", "m", "a", "s", "t", "e", "r">>,
         options |-> <<>>,
         validation_pattern |-> Some("^https:\\/\\/github\\.com\\/[\\w-]+\\/[\\w-]+(\\.git)?(#[\\w\\.-]+)?$"),
         build_type |-> "webapi" ],
       [ key |-> "WEBAPI_MAVEN_PROFILE",
         default_value |-> <<"w", "e", "b", "a", "p", "i", "-", "d", "o", "c", "k", "e", "r">>,
         options |-> <<<<"w", "e", "b", "a", "p", "i", "-", "d", "o", "c", "k", "e", "r">>, <<"w", "e", "b", "a", "p", "i", "-", "d", "o", "c", "k", "e", "r", ",", "w", "e", "b", "a", "p", "i", "-", "s", "o", "l", "r">>>>,
         validation_pattern |-> None,
         build_type |-> "webapi" ],
       [ key |-> "DOCKER_ARCH",
         default_value |-> <<"l", "i", "n", "u", "x", "/", "a", "m", "d", "6", "4">>,
         options |-> <<<<"l", "i", "n", "u", "x", "/", "a", "m", "d", "6", "4">>, <<"l", "i", "n", "u", "x", "/", "a", "r", "m", "6", "4">>>>,
         validation_pattern |-> None,
         build_type |-> "docker" ],
       [ key |-> "DOCKER_COMPOSE_VERSION",
         default_value |-> <<"3", ".", "8">>,
         options |-> <<<<"3", ".", "7">>, <<"3", ".", "8">>, <<"3", ".", "9">>>>,
         validation_pattern |-> None,
         build_type |-> "docker" ],
       [ key |-> "SOLR_VOCAB_ENDPOINT",
         default_value |-> <<"h", "t", "t", "p", ":", "/", "/", "b", "r", "o", "a", "d", "s", "e", "a", "-", "s", "o", "l", "r", "-", "v", "o", "c", "a", "b", ":", "8", "9", "8", "3", "/", "s", "o", "l", "r">>,
         options |-> <<>>,
         validation_pattern |-> Some("^https?:\\/\\/[\\w\\-\\.]+:\\d+\\/.*$"),
         build_type |-> "solr" ],
       [ key |-> "SOLR_VOCAB_VERSION",
         default_value |-> <<"v", "5", ".", "0", "_", "2", "3", "-", "J", "A", "N", "-", "2", "3">>,
         options |-> <<>>,
         validation_pattern |-> None,
         build_type |-> "solr" ],
       [ key |-> "BUILD_ENV",
         default_value |-> <<"p", "r", "o", "d", "u", "c", "t", "i", "o", "n">>,
         options |-> <<<<"d", "e", "v", "e", "l", "o", "p", "m", "e", "n", "t">>, <<"s", "t", "a", "g", "i", "n", "g">>, <<"p", "r", "o", "d", "u", "c", "t", "i", "o", "n">>>>,
         validation_pattern |-> None,
         build_type |-> "environment" ],
       [ key |-> "ENABLE_DEBUG",
         default_value |-> <<"f", "a", "l", "s", "e">>,
         options |-> <<<<"t", "r", "u", "e">>, <<"f", "a", "l", "s", "e">>>>,
         validation_pattern |-> None,
         build_type |-> "environment" ] >>

\* the add_..._group methods of setup_ui, in order
BuildInputOrder ==
    << "ATLAS_GITHUB_URL", "ATLAS_BUILD_FROM_GIT", "WEBAPI_GITHUB_URL", "WEBAPI_MAVEN_PROFILE",
       "DOCKER_ARCH", "DOCKER_COMPOSE_VERSION", "SOLR_VOCAB_ENDPOINT", "SOLR_VOCAB_VERSION",
       "BUILD_ENV", "ENABLE_DEBUG" >>

\* Build-specific validations of an atlas field; ATLAS_BUILD_FROM_GIT is the
\* one field name that holds "ATLAS_BUILD_FROM_GIT"
AtlasBuildRule(acc, cfg, value, widgets) ==
    IF /\ cfg.build_type = "atlas"
       /\ cfg.key = "ATLAS_BUILD_FROM_GIT"
       /\ Lower(value) = <<"t", "r", "u", "e">>
       /\ \/ DictGet(widgets, <<"ATLAS_GITHUB_URL">>) = <<>>
          \/ ~StartsWith(DictGet(widgets, <<"ATLAS_GITHUB_URL">>), GithubPrefix)
    THEN Add(acc, "Invalid Atlas GitHub URL for Git build") ELSE acc

\* Build-specific validations of a webapi field; WEBAPI_MAVEN_PROFILE is the
\* one field name that holds "WEBAPI_MAVEN_PROFILE"
WebapiBuildRule(acc, cfg, value, widgets) ==
    IF /\ cfg.build_type = "webapi"
       /\ cfg.key = "WEBAPI_MAVEN_PROFILE"
       /\ Contains(Lower(value), <<"s", "o", "l", "r">>)
       /\ DictGet(widgets, <<"SOLR_VOCAB_ENDPOINT">>) = <<>>
    THEN Add(acc, "SOLR endpoint is required when using SOLR profile") ELSE acc

\* one turn of the loop of BuildConfigWidget.validate_config
BuildFieldRules(acc, cfg, value, widgets) ==
    WebapiBuildRule(
        AtlasBuildRule(PatternRule(WidgetRequiredRule(acc, cfg, value, FALSE), cfg, value),
                       cfg, value, widgets),
        cfg, value, widgets)

\* for field_name, widget in self.input_widgets.items(): ...
RECURSIVE BuildLoop(_, _, _)
BuildLoop(acc, rest, widgets) ==
    IF rest = <<>> THEN acc
    ELSE BuildLoop(BuildFieldRules(acc, ConfigOf(BuildFieldConfigs, rest[1][1][1]),
                                   rest[1][2], widgets),
                   Tail(rest), widgets)

\* What validate_config did: the issues it found, the box it showed, and the
\* value it returned.  It has no return statement, so it returns None.
Validation(issues, box) == [issues |-> issues, msgbox |-> <<box>>, returned |-> None]

\* the end of validate_config: a warning with the issues, or the success box
ValidationShown(issues) ==
    IF issues # <<>> THEN Validation(issues, Warning("Validation Issues", issues))
    ELSE Validation(issues, Information("Validation Success",
                                        "All build configuration values are valid!"))

\* BuildConfigWidget.validate_config
BuildConfigWidget_validate_config(widgets) == ValidationShown(BuildLoop(Begin, widgets, widgets).issues)

\* the box of the generation step
GenerationMessage ==
    Information("Docker Compose Generation",
                "Docker Compose configuration would be generated here.\n"
                    \o "This is a placeholder for the actual implementation.")

\* `if self.validate_config():` tests the value validate_config returned;
\* the boxes shown by then and after
Generated(validation) ==
    [issues |-> validation.issues,
     msgbox |-> IF Truthy(validation.returned)
                THEN Append(validation.msgbox, GenerationMessage)
                ELSE validation.msgbox]

\* BuildConfigWidget.generate_docker_compose: the issues validate_config
\* found and the boxes shown, in order
generate_docker_compose(widgets) == Generated(BuildConfigWidget_validate_config(widgets))

(***************************************************************************)
(* new_main.py: the configuration wizard                                   *)
(***************************************************************************)

\* ConfigField(name, description, default_value=..., required=True, ...):
\* depends_on is the dict's items, validation_func the text of the lambda
\* ("" for None)
WizardField(name, default_value, depends_on, validation_func, options, field_type) ==
    [name |-> name, default_value |-> default_value, required |-> TRUE,
     depends_on |-> depends_on, validation_func |-> validation_func,
     options |-> options, field_type |-> field_type]

\* the fields of the section "Atlas", in add_field order
AtlasPageFields ==
    << WizardField("ATLAS_VERSION", <<"2", ".", "1", "2", ".", "0">>, <<>>, "", <<>>, "text"),
       WizardField("ATLAS_PORT", <<"8", "0", "8", "0">>, <<>>,
                   "x.isdigit() and 0 <= int(x) <= 65535", <<>>, "text"),
       WizardField("ATLAS_USER_AUTH_ENABLED", <<"f", "a", "l", "s", "e">>, <<>>, "", <<>>, "checkbox"),
       WizardField("ATLAS_COHORT_COMPARISON_RESULTS_ENABLED", <<"f", "a", "l", "s", "e">>, <<>>, "", <<>>, "checkbox"),
       WizardField("ATLAS_PLP_RESULTS_ENABLED", <<"f", "a", "l", "s", "e">>, <<>>, "", <<>>, "checkbox") >>

\* the fields of the section "Security", in add_field order
SecurityPageFields ==
    << WizardField("ATLAS_SECURITY_PROVIDER_TYPE", <<"n", "o", "n", "e">>, <<>>, "",
                   << <<"n", "o", "n", "e">>, <<"a", "d">>, <<"l", "d", "a", "p">>,
                      <<"k", "e", "r", "b", "e", "r", "o", "s">>, <<"o", "p", "e", "n", "i", "d">>,
                      <<"c", "a", "s">>, <<"o", "a", "u", "t", "h">>, <<"i", "a", "p">>,
                      <<"d", "b">> >>, "combo"),
       WizardField("ATLAS_SECURITY_PROVIDER_NAME", <<"n", "o", "n", "e">>, <<>>, "", <<>>, "text"),
       WizardField("SECURITY_AUTH_JDBC_ENABLED", <<"f", "a", "l", "s", "e">>, <<>>, "", <<>>, "checkbox"),
       WizardField("SECURITY_DB_DATASOURCE_SCHEMA",
                   <<"w", "e", "b", "a", "p", "i", "_", "s", "e", "c", "u", "r", "i", "t", "y">>,
                   << <<"SECURITY_AUTH_JDBC_ENABLED", <<"t", "r", "u", "e">> >> >>, "", <<>>, "text"),
       WizardField("SECURITY_AUTH_LDAP_ENABLED", <<"f", "a", "l", "s", "e">>, <<>>, "", <<>>, "checkbox"),
       WizardField("SECURITY_LDAP_URL",
                   <<"l", "d", "a", "p", ":", "/", "/", "b", "r", "o", "a", "d", "s", "e", "a", "-",
                     "o", "p", "e", "n", "l", "d", "a", "p", ":", "1", "3", "8", "9">>,
                   << <<"SECURITY_AUTH_LDAP_ENABLED", <<"t", "r", "u", "e">> >> >>, "", <<>>, "text") >>

\* A depends_on value that is a function (lambda x: ...): == compares it by
\* identity, so it equals no text.  It is kept as its source, in a place
\* where the characters of a text are.
Lambda(source) == <<source>>

\* the fields of the section "SOLR", in add_field order; the endpoint is the
\* one field here with required=False
SolrPageFields ==
    << [WizardField("SOLR_VOCAB_ENDPOINT", <<>>, <<>>, "", <<>>, "text") EXCEPT !.required = FALSE],
       WizardField("SOLR_VOCAB_VERSION",
                   <<"v", "5", ".", "0", "_", "2", "3", "-", "J", "A", "N", "-", "2", "3">>,
                   << <<"SOLR_VOCAB_ENDPOINT", Lambda("lambda x: bool(x)")>> >>, "", <<>>, "text"),
       WizardField("SOLR_VOCAB_DATABASE_SCHEMA", <<"v", "o", "c", "a", "b">>,
                   << <<"SOLR_VOCAB_ENDPOINT", Lambda("lambda x: bool(x)")>> >>, "", <<>>, "text") >>

\* the fields of the section "HADES", in add_field order
HadesPageFields ==
    << WizardField("HADES_USER", <<"o", "h", "d", "s", "i">>, <<>>, "", <<>>, "text"),
       WizardField("HADES_PASSWORD_FILE",
                   <<".", "/", "s", "e", "c", "r", "e", "t", "s", "/", "h", "a", "d", "e", "s", "/",
                     "H", "A", "D", "E", "S", "_", "P", "A", "S", "S", "W", "O", "R", "D">>,
                   <<>>, "", <<>>, "file") >>

\* page.section.fields of the wizard page of a section
SectionFields(section) ==
    CASE section = "Atlas" -> AtlasPageFields
      [] section = "Security" -> SecurityPageFields
      [] section = "SOLR" -> SolrPageFields
      [] section = "HADES" -> HadesPageFields

\* The class of self.fields[name].  create_field_widget stores the QLineEdit
\* of a file field there, and setup_ui then stores the container it returned
\* under the same name.
WidgetClass(field_name) ==
    CASE \E i \in 1..Len(HadesPageFields) :
             HadesPageFields[i].name = field_name /\ HadesPageFields[i].field_type = "file"
           -> "QWidget"
      [] OTHER -> "input"

\* str(b).lower()
BoolText(b) == IF b THEN <<"t", "r", "u", "e">> ELSE <<"f", "a", "l", "s", "e">>

\* create_field_widget: what the new widget holds
Created(field) ==
    CASE field.field_type = "checkbox" -> BoolText(Lower(field.default_value) = <<"t", "r", "u", "e">>)
      [] field.field_type = "combo" ->
            IF InSeq(field.default_value, field.options) THEN field.default_value
            ELSE field.options[1]
      [] OTHER -> field.default_value

\* The dependency_map entries of the fields: one per (dep_field, dep_value)
\* of every depends_on, in the order setup_ui appends them
RECURSIVE Dependencies(_)
DependenciesOf(field) ==
    [i \in 1..Len(field.depends_on) |->
        [source |-> field.depends_on[i][1], target_field |-> field.name,
         required_value |-> field.depends_on[i][2]]]

Dependencies(fields) ==
    IF fields = <<>> THEN <<>>
    ELSE DependenciesOf(fields[1]) \o Dependencies(Tail(fields))

\* target_widget.clear(), setCurrentIndex(0), setChecked(False)
Cleared(field) ==
    CASE field.field_type = "checkbox" -> BoolText(FALSE)
      [] field.field_type = "combo" -> field.options[1]
      [] OTHER -> <<>>

FieldNamed(fields, name) == fields[CHOOSE i \in 1..Len(fields) : fields[i].name = name]

\* A page: the values its widgets hold, and the fields whose container was
\* last given setVisible(False)
Page(fields, hidden) == [fields |-> fields, hidden |-> hidden]

\* one dependency of update_field_visibility: show or hide the container,
\* clear the target when hidden
Shown(page, dependency) ==
    Page(page.fields, page.hidden \ {dependency.target_field})

Hidden(page, dependency, registry) ==
    Page(IF DictHas(page.fields, <<dependency.target_field>>)
         THEN DictSet(page.fields, <<dependency.target_field>>,
                      Cleared(FieldNamed(registry, dependency.target_field)))
         ELSE page.fields,
         page.hidden \cup {dependency.target_field})

Applied(page, dependency, current_value, registry) ==
    IF current_value = dependency.required_value THEN Shown(page, dependency)
    ELSE Hidden(page, dependency, registry)

\* update_field_visibility(field_name) with the dependency_map as it is when
\* called.  No target on these pages has dependents of its own, so clearing a
\* target starts no further update.
RECURSIVE update_field_visibility(_, _, _, _)
update_field_visibility(page, dependency_map, field_name, registry) ==
    IF dependency_map = <<>> THEN page
    ELSE IF dependency_map[1].source # field_name
         THEN update_field_visibility(page, Tail(dependency_map), field_name, registry)
    ELSE update_field_visibility(
             Applied(page, dependency_map[1], DictGet(page.fields, <<field_name>>), registry),
             Tail(dependency_map), field_name, registry)

\* setup_ui: after field number i got its widget, every dep_field of its
\* depends_on that already has a widget is brought up to date
RECURSIVE UpdatedFor(_, _, _, _)
UpdatedFor(page, depends_on, i, registry) ==
    IF depends_on = <<>> THEN page
    ELSE IF ~DictHas(page.fields, <<depends_on[1][1]>>)
         THEN UpdatedFor(page, Tail(depends_on), i, registry)
    ELSE UpdatedFor(
             update_field_visibility(page, Dependencies(SubSeq(registry, 1, i)),
                                     depends_on[1][1], registry),
             Tail(depends_on), i, registry)

RECURSIVE setup_ui(_, _, _)
setup_ui(page, i, registry) ==
    IF i > Len(registry) THEN page
    ELSE setup_ui(
             UpdatedFor(Page(Append(page.fields, <<<<registry[i].name>>, Created(registry[i])>>),
                             page.hidden),
                        registry[i].depends_on, i, registry),
             i + 1, registry)

\* ConfigWizardPage(section)
ConfigWizardPage(section) == setup_ui(Page(<<>>, {}), 1, SectionFields(section))

\* widget.isVisible(): the widget and all its ancestors are shown, up to the
\* window; on_screen says that the wizard is shown with this page current
isVisible(page, on_screen, field_name) == on_screen /\ field_name \notin page.hidden

\* ConfigWizardPage.get_field_value
get_field_value(page, on_screen, field_name) ==
    IF ~DictHas(page.fields, <<field_name>>) THEN <<>>
    ELSE IF ~isVisible(page, on_screen, field_name) THEN <<>>
    ELSE IF WidgetClass(field_name) = "QWidget" THEN <<>>
    ELSE DictGet(page.fields, <<field_name>>)

\* the characters of a text as one string
RECURSIVE TextStr(_)
TextStr(s) == IF s = <<>> THEN "" ELSE s[1] \o TextStr(Tail(s))

\* field.validation_func(value): the value returned, or the exception raised
\* with its str()
validation_func(func, x) ==
    CASE func = "x.isdigit() and 0 <= int(x) <= 65535" ->
            IF ~IsDigit(x) THEN Returned(FALSE)
            ELSE IF IntRaises(x)
                 THEN Raised("invalid literal for int() with base 10: '" \o TextStr(x) \o "'")
            ELSE Returned(0 <= IntOf(x) /\ IntOf(x) <= 65535)

\* ConfigWizard.validate_field: None, or Some(the error)
FuncChecked(field, result) ==
    IF result.kind = "raised"
    THEN Some(field.name \o " validation error: " \o result.value)
    ELSE IF ~result.value THEN Some(field.name \o " validation failed")
    ELSE None

\* validate_field without its required test
validate_field_Unrequired(field, value) ==
    IF field.validation_func # ""
    THEN FuncChecked(field, validation_func(field.validation_func, value))
    ELSE None

validate_field(field, value) ==
    IF field.required /\ value = <<>> THEN Some(field.name \o " is required")
    ELSE IF field.validation_func # ""
         THEN FuncChecked(field, validation_func(field.validation_func, value))
    ELSE None

\* ConfigWizard.validate_page: the issues of the page's fields, in order
RECURSIVE validate_page(_, _, _)
validate_page(page, on_screen, fields) ==
    IF fields = <<>> THEN <<>>
    ELSE validate_field(fields[1], get_field_value(page, on_screen, fields[1].name))
             \o validate_page(page, on_screen, Tail(fields))

(***************************************************************************)
(* sections.py: SecurityConfigWidget                                       *)
(***************************************************************************)

\* the items of provider_selector
ProviderSelectorItems ==
    << <<"N", "o", "n", "e">>, <<"D", "a", "t", "a", "b", "a", "s", "e">>,
       <<"L", "D", "A", "P">>,
       <<"A", "c", "t", "i", "v", "e", " ", "D", "i", "r", "e", "c", "t", "o", "r", "y">>,
       <<"O", "A", "u", "t", "h">>, <<"O", "p", "e", "n", "I", "D">>,
       <<"K", "e", "r", "b", "e", "r", "o", "s">>, <<"C", "A", "S">>,
       <<"G", "o", "o", "g", "l", "e", " ", "I", "A", "P">> >>

\* setup_provider_pages: the keys of providers, which become the keys of
\* self.provider_widgets, in order
ProviderPages ==
    << <<"n", "o", "n", "e">>, <<"d", "b">>, <<"l", "d", "a", "p">>, <<"a", "d">>,
       <<"o", "a", "u", "t", "h">>, <<"o", "p", "e", "n", "i", "d">>,
       <<"k", "e", "r", "b", "e", "r", "o", "s">>, <<"c", "a", "s">>, <<"i", "a", "p">> >>

\* SecuritySection: the options of ATLAS_SECURITY_PROVIDER_TYPE
ProviderTypeOptions ==
    << <<"n", "o", "n", "e">>, <<"a", "d">>, <<"l", "d", "a", "p">>,
       <<"k", "e", "r", "b", "e", "r", "o", "s">>, <<"o", "p", "e", "n", "i", "d">>,
       <<"c", "a", "s">>, <<"o", "a", "u", "t", "h">>, <<"i", "a", "p">>, <<"d", "b">> >>

\* self.input_widgets after setup_ui, as <<name, widget, what it holds>>:
\* the general fields, then the fields of the provider pages
SecurityInputWidgets ==
    <<
       <<"ATLAS_SECURITY_PROVIDER_TYPE", "QComboBox", <<"n", "o", "n", "e">>>>,
       <<"ATLAS_SECURITY_PROVIDER_NAME", "QLineEdit", <<"n", "o", "n", "e">>>>,
       <<"ATLAS_SECURITY_ICON", "QLineEdit", <<"f", "a", "-", "c", "u", "b", "e", "s">>>>,
       <<"ATLAS_SECURITY_USE_FORM", "QComboBox", <<"f", "a", "l", "s", "e">>>>,
       <<"WEBAPI_SECURITY_PROVIDER", "QComboBox", <<"D", "i", "s", "a", "b", "l", "e", "d", "S", "e", "c", "u", "r", "i", "t", "y">>>>,
       <<"SECURITY_TOKEN_EXPIRATION", "QLineEdit", <<"2", "8", "8", "0", "0">>>>,
       <<"SECURITY_AUTH_JDBC_ENABLED", "QComboBox", <<"f", "a", "l", "s", "e">>>>,
       <<"SECURITY_DB_DATASOURCE_SCHEMA", "QLineEdit", <<"w", "e", "b", "a", "p", "i", "_", "s", "e", "c", "u", "r", "i", "t", "y">>>>,
       <<"SECURITY_AUTH_LDAP_ENABLED", "QComboBox", <<"f", "a", "l", "s", "e">>>>,
       <<"SECURITY_LDAP_URL", "QLineEdit", <<"l", "d", "a", "p", ":", "/", "/", "b", "r", "o", "a", "d", "s", "e", "a", "-", "o", "p", "e", "n", "l", "d", "a", "p", ":", "1", "3", "8", "9">>>>,
       <<"SECURITY_AUTH_AD_ENABLED", "QComboBox", <<"f", "a", "l", "s", "e">>>>,
       <<"SECURITY_AD_URL", "QLineEdit", <<>>>>,
       <<"SECURITY_AUTH_OAUTH_ENABLED", "QComboBox", <<"f", "a", "l", "s", "e">>>>,
       <<"SECURITY_OAUTH_CALLBACK_UI", "QLineEdit", <<"h", "t", "t", "p", ":", "/", "/", "l", "o", "c", "a", "l", "h", "o", "s", "t", "/", "A", "t", "l", "a", "s", "/", "#", "/", "w", "e", "l", "c", "o", "m", "e">>>>,
       <<"SECURITY_AUTH_OPENID_ENABLED", "QComboBox", <<"f", "a", "l", "s", "e">>>>,
       <<"SECURITY_AUTH_KERBEROS_ENABLED", "QComboBox", <<"f", "a", "l", "s", "e">>>>,
       <<"SECURITY_AUTH_CAS_ENABLED", "QComboBox", <<"f", "a", "l", "s", "e">>>>,
       <<"SECURITY_AUTH_GOOGLEIAP_ENABLED", "QComboBox", <<"f", "a", "l", "s", "e">>>>
    >>

\* QComboBox.setCurrentText on a combo that is not editable: the item with
\* this text becomes current if there is one
setCurrentText(items, current, item) == IF InSeq(item, items) THEN item ELSE current

\* SecurityConfigWidget after setup_ui
SecurityWidget(selector, stack, input_widgets) ==
    [provider_selector |-> selector, provider_stack |-> stack,
     input_widgets |-> input_widgets]

SecurityConfigWidget ==
    SecurityWidget(ProviderSelectorItems[1], ProviderPages[1], FieldsOf(SecurityInputWidgets))

\* on_provider_changed: provider.lower().replace(" ", "")
provider_key(provider) == Without(Lower(provider), " ")

\* on_provider_changed(provider): both branches of the test for "none" set
\* the text provider_key
on_provider_changed(widget, provider) ==
    IF ~InSeq(provider_key(provider), ProviderPages) THEN widget
    ELSE SecurityWidget(
             widget.provider_selector, provider_key(provider),
             DictSet(widget.input_widgets, <<"ATLAS_SECURITY_PROVIDER_TYPE">>,
                     setCurrentText(ProviderTypeOptions,
                                    DictGet(widget.input_widgets, <<"ATLAS_SECURITY_PROVIDER_TYPE">>),
                                    provider_key(provider))))

(***************************************************************************)
(* ConfigurationApp (main-application.py): the main window's handlers, as  *)
(* functions of the window's state                                         *)
(*   [current_file, sections, fs, status, msgbox, loaded]                   *)
(* and of what the user and the file system answer.  A file name is a      *)
(* string, "" being what a cancelled file dialog returns; the cause of an  *)
(* I/O failure is the text of the exception, "" being no failure.          *)
(***************************************************************************)

\* add_configuration_tabs: the tabs, in order, with the fields of each
Tabs ==
    << <<"Host", HostFields>>, <<"Atlas", AtlasFields>>, <<"WebAPI", WebAPIFields>>,
       <<"Security", SecurityFields>>, <<"DataSource", DataSourceFields>>,
       <<"Build", BuildFields>>, <<"Monitoring", MonitoringFields>> >>

\* self.sections after add_configuration_tabs
InitialSections == [i \in 1..Len(Tabs) |-> <<Tabs[i][1], FieldsOf(Tabs[i][2])>>]

\* section.section_name: BaseConfigSection.__init__ runs after the subclass
\* assigned the name and assigns ""
section_name(tab) == <<>>

\* BaseConfigSection.get_config
get_config(fields) == fields

\* BaseConfigSection.load_config
Section_load_config(fields, cfg) ==
    [i \in 1..Len(fields) |->
        IF DictHas(cfg, fields[i][1]) THEN <<fields[i][1], DictGet(cfg, fields[i][1])>>
        ELSE fields[i]]

\* BaseConfigSection.reset_to_defaults
reset_to_defaults(fields) == [i \in 1..Len(fields) |-> <<fields[i][1], <<>>>>]

\* config = {}; for section in self.sections.values():
\*     config[section.section_name] = section.get_config()
RECURSIVE CurrentConfig(_, _)
CurrentConfig(cfg, sects) ==
    IF sects = <<>> THEN cfg
    ELSE CurrentConfig(DictSet(cfg, section_name(sects[1][1]), get_config(sects[1][2])),
                       Tail(sects))

\* the message boxes
Critical(title, body) == [kind |-> "QMessageBox.critical", title |-> title, value |-> <<body>>]

Question(title, body) == [kind |-> "QMessageBox.question", title |-> title, value |-> <<body>>]

\* str(e) of the exception open() or the read raises
ReadError(files, filepath, cause) ==
    IF files[filepath] = None
    THEN "[Errno 2] No such file or directory: '" \o filepath \o "'"
    ELSE cause

\* ConfigManager.load_config: the config read so far is a local of the call,
\* and is gone when the except clause raises
ConfigManager_load_config(files, filepath, cause) ==
    IF ReadError(files, filepath, cause) # ""
    THEN Raised("Failed to load configuration: " \o ReadError(files, filepath, cause))
    ELSE Returned(Decode(files[filepath][1]))

\* ConfigManager.save_config: the files afterwards, and what the call did
ConfigManager_save_config(files, cfg, filepath, cause, truncated) ==
    IF cause # ""
    THEN [fs |-> IF truncated THEN [files EXCEPT ![filepath] = Some(<<>>)] ELSE files,
          result |-> Raised("Failed to save configuration: " \o cause)]
    ELSE [fs |-> [files EXCEPT ![filepath] = Some(Encode(cfg))], result |-> Saved]

\* a handler starts with no message box on the screen
Fresh(app) == [app EXCEPT !.msgbox = <<>>, !.loaded = NoCall]

\* update_status
update_status(app, message) == [app EXCEPT !.status = message]

\* check_unsaved_changes asks its question
Asks(app, saved) ==
    /\ saved.kind = "returned"
    /\ ~ConfigEq(CurrentConfig(<<>>, app.sections), saved.value)

\* the boxes check_unsaved_changes shows
Questions(app, cause) ==
    IF app.current_file # None
       /\ Asks(app, ConfigManager_load_config(app.fs, app.current_file[1], cause))
    THEN << Question("Unsaved Changes",
                     "You have unsaved changes. Do you want to continue?") >>
    ELSE << >>

\* check_unsaved_changes that takes a file it cannot read for a change
check_unsaved_changes_Unreadable(app, reply, cause) ==
    IF app.current_file = None THEN TRUE
    ELSE IF ConfigManager_load_config(app.fs, app.current_file[1], cause).kind = "raised"
            \/ Asks(app, ConfigManager_load_config(app.fs, app.current_file[1], cause))
    THEN reply = "Yes"
    ELSE TRUE

\* check_unsaved_changes
check_unsaved_changes(app, reply, cause) ==
    IF app.current_file = None THEN TRUE
    ELSE IF Asks(app, ConfigManager_load_config(app.fs, app.current_file[1], cause))
    THEN reply = "Yes"
    ELSE TRUE

\* for section in self.sections.values(): section.reset_to_defaults()
ResetAll(sects) == [i \in 1..Len(sects) |-> <<sects[i][1], reset_to_defaults(sects[i][2])>>]

\* new_config
new_config(app, reply, cause) ==
    IF check_unsaved_changes(app, reply, cause)
    THEN update_status(
             [Fresh(app) EXCEPT !.current_file = None,
                                !.sections = ResetAll(@),
                                !.msgbox = Questions(app, cause)],
             "New configuration created")
    ELSE [Fresh(app) EXCEPT !.msgbox = Questions(app, cause)]

\* for section in self.sections.values():
\*     section.load_config(config.get(section.section_name, {}))
LoadAll(sects, cfg) ==
    [i \in 1..Len(sects) |->
        <<sects[i][1],
          Section_load_config(sects[i][2], DictGetOr(cfg, section_name(sects[i][1]), <<>>))>>]

\* open_config with current_file assigned before load_config is called
Opened_AssignFirst(app, filename, result) ==
    IF result.kind = "raised"
    THEN [app EXCEPT !.current_file = Some(filename),
                     !.loaded = result,
                     !.msgbox = Append(@, Critical("Error",
                                   "Failed to load configuration: " \o result.value))]
    ELSE update_status(
             [app EXCEPT !.current_file = Some(filename),
                         !.loaded = result,
                         !.sections = LoadAll(@, result.value)],
             "Loaded configuration from " \o filename)

\* the try statement of open_config, result being what load_config did
Opened(app, filename, result) ==
    IF result.kind = "raised"
    THEN [app EXCEPT !.loaded = result,
                     !.msgbox = Append(@, Critical("Error",
                                   "Failed to load configuration: " \o result.value))]
    ELSE update_status(
             [app EXCEPT !.current_file = Some(filename),
                         !.loaded = result,
                         !.sections = LoadAll(@, result.value)],
             "Loaded configuration from " \o filename)

\* open_config
open_config(app, reply, check_cause, filename, load_cause) ==
    IF ~check_unsaved_changes(app, reply, check_cause) \/ filename = ""
    THEN [Fresh(app) EXCEPT !.msgbox = Questions(app, check_cause)]
    ELSE Opened([Fresh(app) EXCEPT !.msgbox = Questions(app, check_cause)],
                filename, ConfigManager_load_config(app.fs, filename, load_cause))

\* the try statement of save_config, saved being what ConfigManager.save_config did
Written(app, saved) ==
    IF saved.result.kind = "raised"
    THEN [app EXCEPT !.fs = saved.fs,
                     !.msgbox = Append(@, Critical("Error",
                                   "Failed to save configuration: " \o saved.result.value))]
    ELSE update_status([app EXCEPT !.fs = saved.fs],
                       "Saved configuration to " \o app.current_file[1])

\* save_config once self.current_file is set
SaveCurrent(app, cause, truncated) ==
    Written(app, ConfigManager_save_config(app.fs, CurrentConfig(<<>>, app.sections),
                                           app.current_file[1], cause, truncated))

\* save_config_as that assigns current_file and leaves the writing out
save_config_as_Unwritten(app, filename, cause, truncated) ==
    IF filename # ""
    THEN [Fresh(app) EXCEPT !.current_file = Some(filename)]
    ELSE Fresh(app)

\* save_config_as
save_config_as(app, filename, cause, truncated) ==
    IF filename # ""
    THEN SaveCurrent([Fresh(app) EXCEPT !.current_file = Some(filename)], cause, truncated)
    ELSE Fresh(app)

\* save_config
save_config(app, filename, cause, truncated) ==
    IF app.current_file = None
    THEN save_config_as(app, filename, cause, truncated)
    ELSE SaveCurrent(Fresh(app), cause, truncated)

(***************************************************************************)
(* ConfigurationApp: the calls a File-menu handler makes, in order.  What  *)
(* check_unsaved_changes returned is part of its entry.                    *)
(***************************************************************************)

\* self.check_unsaved_changes()
check_unsaved_changes_calls(app, reply, cause) ==
    << IF check_unsaved_changes(app, reply, cause)
       THEN "check_unsaved_changes: True"
       ELSE "check_unsaved_changes: False" >>

\* new_config
new_config_calls(app, reply, cause) ==
    <<"new_config">> \o check_unsaved_changes_calls(app, reply, cause)
        \o (IF check_unsaved_changes(app, reply, cause)
            THEN <<"reset_to_defaults", "update_status">>
            ELSE <<>>)

\* the try statement of open_config
Opened_calls(result) ==
    IF result.kind = "raised"
    THEN <<"ConfigManager.load_config", "QMessageBox.critical">>
    ELSE <<"ConfigManager.load_config", "load_config", "update_status">>

\* open_config
open_config_calls(app, reply, check_cause, filename, load_cause) ==
    <<"open_config">> \o check_unsaved_changes_calls(app, reply, check_cause)
        \o (IF ~check_unsaved_changes(app, reply, check_cause) THEN <<>>
            ELSE <<"getOpenFileName">>
                     \o (IF filename = "" THEN <<>>
                         ELSE Opened_calls(
                                  ConfigManager_load_config(app.fs, filename, load_cause))))

\* save_config and save_config_as call each other
RECURSIVE save_config_calls(_, _, _)
save_config_as_calls(app, filename, cause) ==
    <<"save_config_as", "getSaveFileName">>
        \o (IF filename # ""
            THEN save_config_calls([app EXCEPT !.current_file = Some(filename)],
                                   filename, cause)
            ELSE <<>>)

save_config_calls(app, filename, cause) ==
    <<"save_config">>
        \o (IF app.current_file = None THEN save_config_as_calls(app, filename, cause)
            ELSE IF cause # "" THEN <<"ConfigManager.save_config", "QMessageBox.critical">>
            ELSE <<"ConfigManager.save_config", "update_status">>)

(***************************************************************************)
(* new_main.py: ConfigWizard, the whole wizard                             *)
(***************************************************************************)

\* create_sections(): the sections followed, as <<name, title>>, in order
WizardSectionList ==
    << <<"Atlas", "Atlas Configuration">>,
       <<"Security", "Security Configuration">>,
       <<"SOLR", "SOLR Vocabulary Configuration">>,
       <<"HADES", "HADES Configuration">> >>

\* The wizard: what the widgets of its pages hold, by section; the fields
\* whose container is hidden; whether the wizard is shown; the section of
\* its current page; its result()
Wizard(pages, hidden, visible, current, result) ==
    [pages |-> pages, hidden |-> hidden, visible |-> visible,
     current |-> current, result |-> result]

\* ConfigWizard(create_sections()), before show()
ConfigWizard ==
    Wizard([i \in 1..Len(WizardSectionList) |->
               <<WizardSectionList[i][1], ConfigWizardPage(WizardSectionList[i][1]).fields>>],
           UNION { ConfigWizardPage(WizardSectionList[i][1]).hidden :
                       i \in 1..Len(WizardSectionList) },
           FALSE, WizardSectionList[1][1], "Rejected")

\* a QWizard shows its current page only
PageOnScreen(wizard, section) == wizard.visible /\ wizard.current = section

\* the page of a section, as ConfigWizardPage's methods take it
PageOf(wizard, section) == Page(DictGet(wizard.pages, section), wizard.hidden)

\* get_config: the fields of one page that have a value or are required
RECURSIVE section_config(_, _, _)
section_config(page, on_screen, fields) ==
    IF fields = <<>> THEN <<>>
    ELSE (IF get_field_value(page, on_screen, fields[1].name) # <<>> \/ fields[1].required
          THEN << <<<<fields[1].name>>, get_field_value(page, on_screen, fields[1].name)>> >>
          ELSE <<>>)
             \o section_config(page, on_screen, Tail(fields))

\* ConfigWizard.get_config
wizard_get_config(wizard) ==
    [i \in 1..Len(wizard.pages) |->
        << <<wizard.pages[i][1]>>,
           section_config(PageOf(wizard, wizard.pages[i][1]),
                          PageOnScreen(wizard, wizard.pages[i][1]),
                          SectionFields(wizard.pages[i][1])) >>]

\* f"{page.section.title}: {issue}" for the issues of a page
RECURSIVE Titled(_, _)
Titled(title, page_issues) ==
    IF page_issues = <<>> THEN <<>>
    ELSE <<title \o ": " \o page_issues[1]>> \o Titled(title, Tail(page_issues))

\* ConfigWizard.validate_all, from page number i on
RECURSIVE wizard_validate_all(_, _)
wizard_validate_all(wizard, i) ==
    IF i > Len(wizard.pages) THEN <<>>
    ELSE Titled(WizardSectionList[i][2],
                validate_page(PageOf(wizard, wizard.pages[i][1]),
                              PageOnScreen(wizard, wizard.pages[i][1]),
                              SectionFields(wizard.pages[i][1])))
             \o wizard_validate_all(wizard, i + 1)

\* The name of the file ConfigWizard.save_config writes
EnvFile == ".env"

\* What on_finish did: the validation it made (NoCall if none), the boxes it
\* showed, the calls it made, and the files it left
Finished(issues, boxes, trace, files) ==
    [issues |-> issues, msgbox |-> boxes, calls |-> trace, fs |-> files]

\* ConfigWizard.save_config and the end of on_finish, after the validation
\* and the calls made so far.  The file gets the lines
\* ConfigManager.save_config writes for the same config; cause is the str()
\* of the error open() or a write raises, "" if none does, and after an
\* error the file is as it was or left empty.
wizard_save_config(issues, trace, files, config, cause) ==
    IF cause = ""
    THEN { Finished(issues,
                    <<Information("Success", "Configuration saved successfully!")>>,
                    trace \o <<"get_config", "save_config">>,
                    [files EXCEPT ![EnvFile] = Some(Encode(config))]) }
    ELSE { Finished(issues,
                    <<Critical("Error", "Failed to save configuration: "
                                            \o "Failed to save configuration: " \o cause)>>,
                    trace \o <<"get_config", "save_config">>,
                    [files EXCEPT ![EnvFile] = left]) : left \in FailedWrites(files[EnvFile]) }

\* on_finish without its validation
on_finish_Unvalidated(wizard, files, cause) ==
    IF wizard.result # "Accepted" THEN { Finished(NoCall, <<>>, <<>>, files) }
    ELSE wizard_save_config(NoCall, <<>>, files, wizard_get_config(wizard), cause)

\* ConfigWizard.on_finish: the outcomes it can have
on_finish(wizard, files, cause) ==
    IF wizard.result # "Accepted" THEN { Finished(NoCall, <<>>, <<>>, files) }
    ELSE IF wizard_validate_all(wizard, 1) # <<>>
         THEN { Finished(Returned(wizard_validate_all(wizard, 1)),
                         <<Warning("Validation Issues", wizard_validate_all(wizard, 1))>>,
                         <<"validate_all">>, files) }
    ELSE wizard_save_config(Returned(wizard_validate_all(wizard, 1)), <<"validate_all">>,
                            files, wizard_get_config(wizard), cause)

\* QDialog.done(r): the result is set and the dialog is hidden, then
\* finished(r) is emitted, to which on_finish is connected
done(wizard, r) == Wizard(wizard.pages, wizard.hidden, FALSE, wizard.current, r)

(***************************************************************************)
(* ConfigurationApp (main-application.py): the Tools menu, Validate All    *)
(* and Export                                                              *)
(***************************************************************************)

\* section.validate() of the section in a tab
Section_validate(name, fields) ==
    CASE name = "Host"       -> BroadseaHostSection_validate(fields)
      [] name = "Atlas"      -> AtlasGUISection_validate(fields)
      [] name = "WebAPI"     -> WebAPISection_validate(fields)
      [] name = "Security"   -> SecuritySection_validate(fields)
      [] name = "DataSource" -> DataSourceSection_validate(fields)
      [] name = "Build"      -> BuildSection_validate(fields)
      [] name = "Monitoring" -> MonitoringSection_validate(fields)

\* [f"{name}: {issue}" for issue in section_issues]
Prefixed(name, section_issues) ==
    [i \in 1..Len(section_issues) |-> name \o ": " \o section_issues[i]]

\* for name, section in self.sections.items(): ... issues.extend(...)
\* an exception of a validate leaves the loop and validate_all
RECURSIVE ValidateSections(_, _)
Extended(sects, issues, result) ==
    IF result.kind = "raised" THEN result
    ELSE ValidateSections(Tail(sects), issues \o Prefixed(sects[1][1], result.value))

ValidateSections(sects, issues) ==
    IF sects = <<>> THEN Returned(issues)
    ELSE Extended(sects, issues, Section_validate(sects[1][1], sects[1][2]))

\* an exception no handler caught: it leaves the slot, reaches
\* sys.excepthook, and PyQt6 ends the program
Unhandled(exc) == [kind |-> "sys.excepthook", title |-> exc, value |-> <<>>]

Aborted(boxes) == \E i \in 1..Len(boxes) : boxes[i].kind = "sys.excepthook"

\* the lines of "The following issues were found:\n\n" + "\n".join(issues)
IssuesBody(issues) == <<"The following issues were found:", "">> \o issues

\* the end of validate_all, result being what the loop did
Validated(app, result) ==
    IF result.kind = "raised" THEN [app EXCEPT !.msgbox = <<Unhandled(result.value)>>]
    ELSE IF result.value # <<>>
    THEN [app EXCEPT !.msgbox = <<Warning("Validation Issues", IssuesBody(result.value))>>]
    ELSE [app EXCEPT !.msgbox = <<Information("Validation Success",
                                              "All configuration sections are valid!")>>]

\* validate_all with a validate that clears the fields it has read
validate_all_Clearing(app) ==
    Validated([Fresh(app) EXCEPT !.sections = ResetAll(@)],
              ValidateSections(app.sections, <<>>))

\* validate_all
validate_all(app) == Validated(Fresh(app), ValidateSections(app.sections, <<>>))

\* the items of the format selector of ExportDialog
formats == <<"JSON", "YAML", "Docker Compose">>

\* json.dumps of a str (ensure_ascii), without the quotes
JsonEscape(c) ==
    CASE c = "\"" -> <<"\\", "\"">>
      [] c = "\\" -> <<"\\", "\\">>
      [] c = "\n" -> <<"\\", "n">>
      [] c = "\t" -> <<"\\", "t">>
      [] c = "²"  -> <<"\\", "u", "0", "0", "b", "2">>
      [] OTHER    -> <<c>>

RECURSIVE JsonString(_)
JsonString(s) == IF s = <<>> THEN <<>> ELSE JsonEscape(s[1]) \o JsonString(Tail(s))

Quoted(s) == <<"\"">> \o JsonString(s) \o <<"\"">>

Indent(n) == [i \in 1..n |-> " "]

Comma(i, n) == IF i < n THEN <<",">> ELSE <<>>

\* the lines json.dump(..., indent=2) writes for the members of a section
JsonMembers(values) ==
    [i \in 1..Len(values) |->
        Indent(4) \o Quoted(values[i][1]) \o <<":", " ">> \o Quoted(values[i][2])
                  \o Comma(i, Len(values))]

\* the lines it writes for one section, the i-th of n
JsonSection(name, values, i, n) ==
    IF values = <<>>
    THEN << Indent(2) \o Quoted(name) \o <<":", " ", "{", "}">> \o Comma(i, n) >>
    ELSE << Indent(2) \o Quoted(name) \o <<":", " ", "{">> >>
         \o JsonMembers(values)
         \o << Indent(2) \o <<"}">> \o Comma(i, n) >>

RECURSIVE JsonSections(_, _)
JsonSections(cfg, i) ==
    IF i > Len(cfg) THEN <<>>
    ELSE JsonSection(cfg[i][1], cfg[i][2], i, Len(cfg)) \o JsonSections(cfg, i + 1)

\* json.dump(config, f, indent=2): the lines of the file
json_dump(cfg) ==
    IF cfg = <<>> THEN << <<"{", "}">> >>
    ELSE << <<"{">> >> \o JsonSections(cfg, 1) \o << <<"}">> >>

\* yaml.dump(config, f, default_flow_style=False): the file holds the
\* document in YAML notation, kept here as the document under the notation's name
yaml_dump(document) == << <<"yaml.dump", document>> >>

\* what a write to a file did: the files afterwards and the exception, "" for none
Wrote(files, filename, lines) ==
    [fs |-> [files EXCEPT ![filename] = Some(lines)], error |-> ""]

\* the write failed: open raised and the file is as it was, or a later
\* write did and the file is left empty
WriteFailed(files, filename, cause, truncated) ==
    [fs |-> IF truncated THEN [files EXCEPT ![filename] = Some(<<>>)] ELSE files,
     error |-> cause]

\* export_json
export_json(app, filename, cause, truncated) ==
    IF cause # "" THEN WriteFailed(app.fs, filename, cause, truncated)
    ELSE Wrote(app.fs, filename, json_dump(CurrentConfig(<<>>, app.sections)))

\* export_yaml: import yaml fails where PyYAML is not installed
export_yaml(app, filename, cause, truncated, installed) ==
    IF ~installed
    THEN WriteFailed(app.fs, filename, "PyYAML is required for YAML export", FALSE)
    ELSE IF cause # "" THEN WriteFailed(app.fs, filename, cause, truncated)
    ELSE Wrote(app.fs, filename, yaml_dump(CurrentConfig(<<>>, app.sections)))

\* self.sections[tab].get_config()[key]
Value(sects, tab, key) == DictGet(get_config(DictGet(sects, tab)), <<key>>)

\* the services of export_docker_compose
services(sects) ==
    << <<"atlas",
         << <<"image", <<"ohdsi/atlas:">> \o Value(sects, "Atlas", "ATLAS_VERSION")>>,
            <<"ports", <<Value(sects, "Atlas", "ATLAS_PORT") \o <<":8080">>>>>>,
            <<"environment", get_config(DictGet(sects, "Atlas"))>>,
            <<"depends_on", <<"postgres", "webapi">>>> >> >>,
       <<"webapi",
         << <<"image", <<"ohdsi/webapi:">> \o Value(sects, "WebAPI", "WEBAPI_VERSION")>>,
            <<"ports", <<Value(sects, "WebAPI", "WEBAPI_PORT") \o <<":8080">>>>>>,
            <<"environment", get_config(DictGet(sects, "WebAPI"))>>,
            <<"depends_on", <<"postgres">>>> >> >>,
       <<"postgres",
         << <<"image", <<"postgres:13">>>>,
            <<"ports", <<"5432:5432">>>>,
            <<"environment",
              << <<"POSTGRES_USER", Value(sects, "DataSource", "DATASOURCE_DB_USER")>>,
                 <<"POSTGRES_PASSWORD", Value(sects, "DataSource", "DATASOURCE_DB_PASS")>>,
                 <<"POSTGRES_DB", Value(sects, "DataSource", "DATASOURCE_DB_NAME")>> >> >>,
            <<"volumes", <<"postgres_data:/var/lib/postgresql/data">>>> >> >> >>

\* compose_config of export_docker_compose
compose_config(sects) ==
    << <<"version", "3.8">>, <<"services", services(sects)>>,
       <<"volumes", << <<"postgres_data", None>> >> >> >>

\* yaml.dump(compose_config, f, ...) in a module that has no global yaml
\* (export_yaml's import binds a local of export_yaml): the name lookup
\* raises NameError once open has emptied the file
DumpCompose(files, filename, document) ==
    WriteFailed(files, filename, "name 'yaml' is not defined", TRUE)

\* export_docker_compose
export_docker_compose(app, filename, cause) ==
    IF cause # "" THEN WriteFailed(app.fs, filename, cause, FALSE)
    ELSE DumpCompose(app.fs, filename, compose_config(app.sections))

\* extension, export_func = formats[format_name]; export_func(filename)
export_func(app, format_name, filename, cause, truncated, installed) ==
    CASE format_name = "JSON" -> export_json(app, filename, cause, truncated)
      [] format_name = "YAML" -> export_yaml(app, filename, cause, truncated, installed)
      [] format_name = "Docker Compose" -> export_docker_compose(app, filename, cause)

\* the try statement of export_config, written being what export_func did
Exported(app, format_name, written) ==
    IF written.error # ""
    THEN [app EXCEPT !.fs = written.fs,
                     !.msgbox = <<Critical("Export Error",
                                    "Failed to export configuration: " \o written.error)>>]
    ELSE update_status([app EXCEPT !.fs = written.fs],
                       "Exported configuration as " \o format_name)

\* export_config: the dialog is accepted or not, with a format selected,
\* and the file dialog returns a name or ""
export_config(app, accepted, format_name, filename, cause, truncated, installed) ==
    IF ~accepted \/ filename = "" THEN Fresh(app)
    ELSE Exported(Fresh(app), format_name,
                  export_func(app, format_name, filename, cause, truncated, installed))

(***************************************************************************)
(* State                                                                   *)
(***************************************************************************)

\* ConfigManager at work on one file
VARIABLES
    cm_doc,           \* the config handed to ConfigManager.save_config
    cm_file,          \* the file at filepath: None, or Some(its lines)
    cm_pc,            \* where ConfigManager is: "idle", "loading"
    line_no,          \* load_config: the number of the line read next
    config,           \* load_config: the local config
    current_section,  \* load_config: the local current_section
    cm_result,        \* what the last call did: returned a value or raised
    cm_prev           \* None, or Some(the loaded document written back last)

cm_vars == <<cm_doc, cm_file, cm_pc, line_no, config,
             current_section, cm_result, cm_prev>>

\* one section, section widget or wizard page under validation
VARIABLES
    v_widget,         \* the class of the object
    v_fields,         \* its widgets' values: a dict from field names to texts
    v_dirs,           \* the directories that exist (what os.path.exists answers)
    v_hidden,         \* a wizard page: the fields whose container is hidden
    v_on_screen,      \* a wizard page: the wizard is shown with this page current
    v_result,         \* what the last validation of these values did
    provider_selector,  \* SecurityConfigWidget: the text provider_selector shows
    provider_stack,   \* SecurityConfigWidget: the key of provider_stack's current page
    current_page,     \* ConfigWizard: the section of currentPage()
    dialog_result     \* ConfigWizard: result()

\* those that only one class has
own_vars == <<provider_selector, provider_stack, current_page, dialog_result>>

v_vars == <<v_widget, v_fields, v_dirs, v_hidden, v_on_screen, v_result, own_vars>>

\* ConfigurationApp, the main window
VARIABLES
    current_file,     \* self.current_file: None or Some(a file name)
    sections,         \* self.sections: a dict from tab names to the fields of the tab
    fs,               \* the files on disk: a dict from file names to their lines
    status,           \* the message of the status bar
    msgbox,           \* the message boxes the last handler showed, in order
    loaded,           \* what the load_config call of the last open_config did
    saved_sections,   \* history: None, or Some(self.sections at the last successful save)
    calls             \* history: the calls the last handler made, in order

app_vars == <<current_file, sections, fs, status, msgbox, loaded, saved_sections, calls>>

vars == <<cm_vars, v_vars, app_vars>>

\* the parts of the state a specification does not use stay as they are here
CMIdle ==
    /\ cm_doc = <<>>
    /\ cm_file = None
    /\ cm_pc = "idle"
    /\ line_no = 0
    /\ config = <<>>
    /\ current_section = None
    /\ cm_result = NoCall
    /\ cm_prev = None

VIdle ==
    /\ v_widget = ""
    /\ v_fields = <<>>
    /\ v_dirs = {}
    /\ v_hidden = {}
    /\ v_on_screen = FALSE
    /\ v_result = NoCall
    /\ provider_selector = <<>>
    /\ provider_stack = <<>>
    /\ current_page = ""
    /\ dialog_result = ""

AppIdle ==
    /\ current_file = None
    /\ sections = <<>>
    /\ fs = <<>>
    /\ status = ""
    /\ msgbox = <<>>
    /\ loaded = NoCall
    /\ saved_sections = None
    /\ calls = <<>>

(***************************************************************************)
(* The documents and files the codec is exercised on                       *)
(***************************************************************************)

\* sections plus keys of a document handed to save_config
MaxDocSize == 3

\* lines of a file that was not written by save_config
MaxFileLines == 3

NameSet ==
    { <<"H", "o", "s", "t">>,
      <<>>,
      <<"a", ":", "H", "o", "s", "t">>,
      <<" ", "H", "o", "s", "t">> }

EntrySet ==
    { << <<"K">>, <<"8", "0">> >>,
      << <<"K">>, <<"b", "=", "c">> >>,
      << <<"K">>, <<" ", "v">> >>,
      << <<"K">>, <<"v", "\n", "w">> >>,
      << <<"K">>, <<"v", "\r", "w">> >>,
      << <<"J">>, <<>> >>,
      << <<"A", "=", "B">>, <<"c">> >>,
      << <<"#", "K">>, <<"v">> >>,
      << <<"K", " ">>, <<"v">> >> }

LineSet ==
    { <<"#", " ", "S", "e", "c", "t", "i", "o", "n", ":", " ", "H", "o", "s", "t">>,
      <<"#", " ", "S", "e", "c", "t", "i", "o", "n", ":", " ", "a", ":", "b">>,
      <<"#", " ", "S", "e", "c", "t", "i", "o", "n", ":">>,
      <<"#", "S", "e", "c", "t", "i", "o", "n">>,
      <<"#", " ", "n", "o", "t", "e", ":", " ", "x", "=", "1">>,
      <<"F", "O", "O", "=", "b", "a", "r", "=", "b", "a", "z">>,
      <<" ", "K", " ", "=", " ", "v", " ">>,
      <<" ", "#", "K", "=", "v">>,
      <<"K">>,
      <<>> }

SeqsUpTo(S, n) == UNION {[1..m -> S] : m \in 0..n}

Distinct(f) == \A i, j \in DOMAIN f : i # j => f[i] # f[j]

\* dicts of at most n entries, the keys distinct
DictSet_UpTo(n) ==
    {d \in SeqsUpTo(EntrySet, n) : Distinct([i \in DOMAIN d |-> d[i][1]])}

\* documents of at most `budget` sections and keys
RECURSIVE DocsWithin(_)
DocsWithin(budget) ==
    IF budget <= 0 THEN {<<>>}
    ELSE {<<>>} \cup
         UNION { UNION { { <<<<n, d>>>> \o rest : rest \in DocsWithin(budget - 1 - Len(d)) }
                         : d \in DictSet_UpTo(budget - 1) }
                 : n \in NameSet }

\* documents of at most MaxDocSize sections and keys, the section names distinct
DocSet == {c \in DocsWithin(MaxDocSize) : Distinct([i \in DOMAIN c |-> c[i][1]])}

FileSet == SeqsUpTo(LineSet, MaxFileLines)

CMInit ==
    /\ \/ cm_doc \in DocSet /\ cm_file = None
       \/ cm_doc = <<>> /\ cm_file \in {Some(f) : f \in FileSet}
    /\ cm_pc = "idle"
    /\ line_no = 0
    /\ config = <<>>
    /\ current_section = None
    /\ cm_result = NoCall
    /\ cm_prev = None
    /\ VIdle
    /\ AppIdle

\* ConfigManager.save_config(cm_doc, filepath) writes the file
CM_SaveConfig ==
    /\ cm_pc = "idle"
    /\ cm_result.kind = "none"
    /\ cm_file' = Some(Encode(cm_doc))
    /\ cm_result' = Saved
    /\ UNCHANGED <<cm_doc, cm_pc, line_no, config, current_section, cm_prev, v_vars, app_vars>>

\* ConfigManager.save_config fails: the except clause raises
CM_SaveConfigFail ==
    /\ cm_pc = "idle"
    /\ cm_result.kind = "none"
    /\ cm_file' \in FailedWrites(cm_file)
    /\ cm_result' = Raised("Failed to save configuration")
    /\ UNCHANGED <<cm_doc, cm_pc, line_no, config, current_section, cm_prev, v_vars, app_vars>>

\* the document load_config returned is handed to save_config again
CM_SaveLoaded ==
    /\ cm_pc = "idle"
    /\ cm_result.kind = "returned"
    /\ cm_result.value # <<>>
    /\ cm_prev = None
    /\ cm_doc' = cm_result.value
    /\ cm_prev' = Some(cm_result.value)
    /\ cm_file' = Some(Encode(cm_result.value))
    /\ cm_result' = Saved
    /\ UNCHANGED <<cm_pc, line_no, config, current_section, v_vars, app_vars>>

\* load_config opens the file and sets its locals
CM_LoadOpen ==
    /\ cm_pc = "idle"
    /\ cm_file # None
    /\ cm_pc' = "loading"
    /\ line_no' = 1
    /\ config' = <<>>
    /\ current_section' = None
    /\ cm_result' = NoCall
    /\ UNCHANGED <<cm_doc, cm_file, cm_prev, v_vars, app_vars>>

\* load_config: one turn of `for line in file`
CM_LoadLine ==
    /\ cm_pc = "loading"
    /\ line_no <= Len(cm_file[1])
    /\ LET st == LoadLineBody([config |-> config,
                               current_section |-> current_section],
                              cm_file[1][line_no])
       IN  /\ config' = st.config
           /\ current_section' = st.current_section
    /\ line_no' = line_no + 1
    /\ UNCHANGED <<cm_doc, cm_file, cm_pc, cm_result, cm_prev, v_vars, app_vars>>

\* load_config: the loop is over, `return config`
CM_LoadReturn ==
    /\ cm_pc = "loading"
    /\ line_no > Len(cm_file[1])
    /\ cm_result' = Returned(config)
    /\ cm_pc' = "idle"
    /\ line_no' = 0
    /\ config' = <<>>
    /\ current_section' = None
    /\ UNCHANGED <<cm_doc, cm_file, cm_prev, v_vars, app_vars>>

\* load_config: open() or a read raises; the except clause raises, the
\* locals are dropped
CM_LoadFail ==
    /\ \/ cm_pc = "idle" /\ cm_result.kind # "raised"
       \/ cm_pc = "loading"
    /\ cm_result' = Raised("Failed to load configuration")
    /\ cm_pc' = "idle"
    /\ line_no' = 0
    /\ config' = <<>>
    /\ current_section' = None
    /\ UNCHANGED <<cm_doc, cm_file, cm_prev, v_vars, app_vars>>

CMNext ==
    \/ CM_SaveConfig
    \/ CM_SaveConfigFail
    \/ CM_SaveLoaded
    \/ CM_LoadOpen
    \/ CM_LoadLine
    \/ CM_LoadReturn
    \/ CM_LoadFail

SpecCodec == CMInit /\ [][CMNext]_vars

(***************************************************************************)
(* Validation: one section of the tabbed application, or one widget of     *)
(* sections.py, holding values the user left in it, is validated           *)
(***************************************************************************)

\* at most this many fields hold a value other than their default
MaxEdited == 2

SectionClasses ==
    { "BroadseaHostSection", "AtlasGUISection", "WebAPISection", "SecuritySection",
      "DataSourceSection", "BuildSection", "MonitoringSection" }

WidgetClasses == { "WebAPIConfigWidget", "DataSourceConfigWidget", "MonitoringConfigWidget" }

\* the values of the fields when the object has been constructed
DefaultFields(class) ==
    CASE class = "BroadseaHostSection"    -> FieldsOf(HostFields)
      [] class = "AtlasGUISection"        -> FieldsOf(AtlasFields)
      [] class = "WebAPISection"          -> FieldsOf(WebAPIFields)
      [] class = "SecuritySection"        -> FieldsOf(SecurityFields)
      [] class = "DataSourceSection"      -> FieldsOf(DataSourceFields)
      [] class = "BuildSection"           -> FieldsOf(BuildFields)
      [] class = "MonitoringSection"      -> FieldsOf(MonitoringFields)
      [] class = "WebAPIConfigWidget"     -> InputWidgets(WebAPIFieldConfigs, WebAPIInputOrder)
      [] class = "DataSourceConfigWidget" -> InputWidgets(DataSourceFieldConfigs, DataSourceInputOrder)
      [] class = "MonitoringConfigWidget" -> InputWidgets(MonitoringFieldConfigs, MonitoringInputOrder)

PortFieldNames ==
    { "HOST_PORT", "ATLAS_PORT", "ATLAS_DB_PORT", "WEBAPI_PORT", "WEBAPI_DB_PORT",
      "SECURITY_DB_PORT", "DATASOURCE_DB_PORT", "MONITORING_PORT" }

ThresholdFieldNames ==
    { "MONITORING_DISK_THRESHOLD", "MONITORING_MEMORY_THRESHOLD", "MONITORING_CPU_THRESHOLD" }

BoolFieldNames ==
    { "WEBAPI_CORS_ENABLED", "WEBAPI_SECURITY_ENABLED", "SECURITY_ENABLED",
      "SECURITY_SSL_ENABLED", "BUILD_CLEAN", "BUILD_PARALLEL", "BUILD_SKIP_TESTS",
      "BUILD_SKIP_LINT", "BUILD_SKIP_DOCS", "MONITORING_ENABLED" }

JsonFieldNames == { "ATLAS_CONFIG", "WEBAPI_DATASOURCES_JSON", "DATASOURCE_ADVANCED_OPTIONS" }

\* the fields a section requires to hold more than whitespace
StrippedFieldNames ==
    { "SECURITY_OAUTH_CLIENT_ID", "SECURITY_OAUTH_CLIENT_SECRET",
      "SECURITY_OAUTH_CALLBACK_URL", "SECURITY_SSL_KEYSTORE",
      "SECURITY_SSL_KEYSTORE_PASSWORD", "DATASOURCE_NAME", "DATASOURCE_CDM_SCHEMA",
      "DATASOURCE_VOCAB_SCHEMA", "DATASOURCE_RESULTS_SCHEMA" }

PathFieldNames ==
    { "CDM_CONNECTIONDETAILS_PASSWORD_FILE", "VOCAB_PG_PASSWORD_FILE", "VOCAB_PG_FILES_PATH",
      "UMLS_API_KEY_FILE", "LOG_PATH", "ANALYTICS_DB_PATH" }

\* the texts tried in a line or text edit: the ends of the field's range and
\* their neighbours, a digit int() does not read, options in both cases, a text
\* outside the options; nothing is tried in a field no rule reads
Typed(name) ==
    CASE name = "HOST_PORT"
           -> { <<"-", "1">>, <<"0">>, <<"6", "5", "5", "3", "5">>, <<"6", "5", "5", "3", "6">>, <<"7", "0", "0", "0", "0">>, <<"²">> }
      [] name \in PortFieldNames
           -> { <<"-", "1">>, <<"0">>, <<"6", "5", "5", "3", "5">>, <<"6", "5", "5", "3", "6">>, <<"²">> }
      [] name = "CDM_CONNECTIONDETAILS_PORT"
           -> { <<>>, <<"-", "1">>, <<"0">>, <<"1">>, <<"6", "5", "5", "3", "5">>, <<"6", "5", "5", "3", "6">>, <<"²">> }
      [] name = "MONITORING_INTERVAL"       -> { <<"0">>, <<"1">>, <<"3", "6", "0", "0">>, <<"3", "6", "0", "1">> }
      [] name = "MONITORING_RETENTION_DAYS" -> { <<"0">>, <<"1">>, <<"3", "6", "5">>, <<"3", "6", "6">> }
      [] name \in ThresholdFieldNames       -> { <<"-", "1">>, <<"0">>, <<"1", "0", "0">>, <<"1", "0", "1">>, <<"²">> }
      [] name \in BoolFieldNames            -> { <<"t", "r", "u", "e">>, <<"f", "a", "l", "s", "e">>, <<"T", "R", "U", "E">>, <<"y", "e", "s">> }
      [] name = "HOST_PROTOCOL"             -> { <<"h", "t", "t", "p", "s">>, <<"H", "T", "T", "P">>, <<"f", "t", "p">> }
      [] name = "BUILD_MODE"                -> { <<"t", "e", "s", "t">>, <<"T", "e", "s", "t">>, <<"p", "r", "o", "d">> }
      [] name = "DATASOURCE_DIALECT"        -> { <<"o", "r", "a", "c", "l", "e">>, <<"S", "Q", "L", " ", "S", "e", "r", "v", "e", "r">>, <<"m", "y", "s", "q", "l">> }
      [] name = "SECURITY_AUTH_PROVIDER"    -> { <<"o", "a", "u", "t", "h">>, <<"O", "A", "u", "t", "h">>, <<"s", "a", "m", "l">> }
      [] name = "MONITORING_LOG_LEVEL"      -> { <<"d", "e", "b", "u", "g">>, <<"I", "N", "F", "O">>, <<"t", "r", "a", "c", "e">> }
      [] name \in JsonFieldNames            -> { <<>>, <<"{">>, <<"{", "\"", "a", "\"", ":", " ", "[", "1", "]", "}">> }
      [] name = "DATASOURCE_KEY"            -> { <<>>, <<"a", "_", "b">>, <<"a", " ", "b">> }
      [] name = "BUILD_MAVEN_OPTS"          -> { <<>>, <<"-", "X", "m", "s", "1", "m">>, <<"2", "g">> }
      [] name = "BUILD_TARGET_DIR"          -> { <<" ">>, <<"t", "a", "r", "g", "e", "t">>, <<"/", "t">>, <<"~", "/", "t">> }
      [] name = "MONITORING_ALERT_EMAIL"    -> { <<"a">>, <<"a", "@", "b">> }
      [] name = "MONITORING_ALERT_SLACK"    -> { <<"h", "t", "t", "p", "s", ":", "/", "/", "h", "o", "o", "k", "s", ".", "s", "l", "a", "c", "k", ".", "c", "o", "m", "/", "x">>, <<"h", "t", "t", "p", ":", "/", "/", "x">> }
      [] name = "TRACING_SAMPLE_RATE"       -> { <<>>, <<"0", ".", "5">>, <<"0", "x">>, <<"1", ".", "0">>, <<"1", ".", "5">> }
      [] name \in PathFieldNames            -> { <<>>, <<"l", "o", "g", "s">>, <<".", "/", "l", "o", "g", "s", "/", "a", "p", "p">> }
      [] name = "WEBAPI_DATASOURCE_URL"
           -> { <<"j", "d", "b", "c", ":", "m", "y", "s", "q", "l", ":", "/", "/", "h", ":", "1", "/", "d">>, <<"j", "d", "b", "c", ":", "m", "y", "s", "q", "l", ":", "/", "/", "h", ":", "1", "/", "d", " ", "x">>, <<"j", "d", "b", "c", ":", "h">> }
      [] name = "CACHE_GENERATION_INVALIDAFTERDAYS"
           -> { <<"-", "1">>, <<"-", "1", "a", "b", "c">>, <<"-", "2">>, <<"7">>, <<"a", "b", "c">> }
      [] name = "CACHE_GENERATION_CLEANUPINTERVAL" -> { <<"9", "9", "9">>, <<"1", "0", "0", "0">>, <<"1", "x">> }
      [] name = "EXECUTIONENGINE_URL"       -> { <<"h", "t", "t", "p", ":", "/", "/", "h", ":", "1", "/">>, <<"f", "t", "p", ":", "/", "/", "h", ":", "1", "/">> }
      [] name \in StrippedFieldNames        -> { <<>>, <<" ">> }
      [] OTHER                              -> { }

\* the values tried in a spin box
SpinTries(cfg) ==
    { cfg.min_value[1] - 1, cfg.min_value[1], cfg.max_value[1], cfg.max_value[1] + 1 }

\* the values a widget of sections.py may hold: one of the options of a combo
\* box, a number a spin box accepts, a text typed in a line edit (none of which
\* a field the widget only requires needs but the empty one)
Held(cfg) ==
    IF WidgetKind(cfg) = "QComboBox" THEN { cfg.options[i] : i \in 1..Len(cfg.options) }
    ELSE IF WidgetKind(cfg) = "QSpinBox"
    THEN { StrText(SpinValue(cfg, n)) : n \in SpinTries(cfg) }
    ELSE Typed(cfg.key) \cup { <<>> }

\* the values tried in a field of an object of the class
Inputs(class, name) ==
    IF class = "WebAPIConfigWidget" THEN Held(ConfigOf(WebAPIFieldConfigs, name))
    ELSE IF class = "DataSourceConfigWidget" THEN Held(ConfigOf(DataSourceFieldConfigs, name))
    ELSE IF class = "MonitoringConfigWidget" THEN Held(ConfigOf(MonitoringFieldConfigs, name))
    ELSE Typed(name)

\* what os.path.exists may answer: no directory exists, or these do
DirChoices ==
    { {}, { <<".">>, <<".", "/", "s", "e", "c", "r", "e", "t", "s", "/", "c", "d", "m">>, <<".", "/", "s", "e", "c", "r", "e", "t", "s", "/", "v", "o", "c", "a", "b">>, <<".", "/", "v", "o", "c", "a", "b">>, <<".", "/", "a", "n", "a", "l", "y", "t", "i", "c", "s">>,
            <<".", "/", "s", "e", "c", "r", "e", "t", "s", "/", "w", "e", "b", "a", "p", "i">>, <<".", ".", "/", "j", "d", "b", "c">>, <<".", ".">> } }

\* the fields with at most `budget` of them holding a tried value other than
\* the one they hold in `fields`
RECURSIVE Edits(_, _, _)
Edits(class, fields, budget) ==
    IF fields = <<>> THEN { <<>> }
    ELSE { <<fields[1]>> \o rest : rest \in Edits(class, Tail(fields), budget) }
         \cup
         IF budget = 0 THEN { }
         ELSE { <<<<fields[1][1], value>>>> \o rest :
                    value \in Inputs(class, fields[1][1][1]) \ { fields[1][2] },
                    rest \in Edits(class, Tail(fields), budget - 1) }

ValidateInit ==
    /\ v_widget \in SectionClasses \cup WidgetClasses
    /\ v_fields \in Edits(v_widget, DefaultFields(v_widget), MaxEdited)
    /\ v_dirs \in (IF v_widget \in WidgetClasses THEN DirChoices ELSE {{}})
    /\ v_hidden = {}
    /\ v_on_screen = FALSE
    /\ v_result = NoCall
    /\ provider_selector = <<>>
    /\ provider_stack = <<>>
    /\ current_page = ""
    /\ dialog_result = ""
    /\ CMIdle
    /\ AppIdle

\* the user picks another DBMS in the combo box: currentTextChanged fires
\* on_dbms_changed
V_on_dbms_changed ==
    /\ v_widget = "DataSourceConfigWidget"
    /\ \E dbms \in Inputs(v_widget, "CDM_CONNECTIONDETAILS_DBMS") :
          /\ dbms # DictGet(v_fields, <<"CDM_CONNECTIONDETAILS_DBMS">>)
          /\ v_fields' = on_dbms_changed(
                             DictSet(v_fields, <<"CDM_CONNECTIONDETAILS_DBMS">>, dbms), dbms)
    /\ v_result' = NoCall
    /\ UNCHANGED <<v_widget, v_dirs, v_hidden, v_on_screen, own_vars, cm_vars, app_vars>>

V_BroadseaHostSection_validate ==
    /\ v_widget = "BroadseaHostSection"
    /\ v_result' = BroadseaHostSection_validate(v_fields)
    /\ UNCHANGED <<v_widget, v_fields, v_dirs, v_hidden, v_on_screen, own_vars, cm_vars, app_vars>>

V_AtlasGUISection_validate ==
    /\ v_widget = "AtlasGUISection"
    /\ v_result' = AtlasGUISection_validate(v_fields)
    /\ UNCHANGED <<v_widget, v_fields, v_dirs, v_hidden, v_on_screen, own_vars, cm_vars, app_vars>>

V_WebAPISection_validate ==
    /\ v_widget = "WebAPISection"
    /\ v_result' = WebAPISection_validate(v_fields)
    /\ UNCHANGED <<v_widget, v_fields, v_dirs, v_hidden, v_on_screen, own_vars, cm_vars, app_vars>>

V_SecuritySection_validate ==
    /\ v_widget = "SecuritySection"
    /\ v_result' = SecuritySection_validate(v_fields)
    /\ UNCHANGED <<v_widget, v_fields, v_dirs, v_hidden, v_on_screen, own_vars, cm_vars, app_vars>>

V_DataSourceSection_validate ==
    /\ v_widget = "DataSourceSection"
    /\ v_result' = DataSourceSection_validate(v_fields)
    /\ UNCHANGED <<v_widget, v_fields, v_dirs, v_hidden, v_on_screen, own_vars, cm_vars, app_vars>>

V_BuildSection_validate ==
    /\ v_widget = "BuildSection"
    /\ v_result' = BuildSection_validate(v_fields)
    /\ UNCHANGED <<v_widget, v_fields, v_dirs, v_hidden, v_on_screen, own_vars, cm_vars, app_vars>>

V_MonitoringSection_validate ==
    /\ v_widget = "MonitoringSection"
    /\ v_result' = MonitoringSection_validate(v_fields)
    /\ UNCHANGED <<v_widget, v_fields, v_dirs, v_hidden, v_on_screen, own_vars, cm_vars, app_vars>>

V_WebAPIConfigWidget_validate ==
    /\ v_widget = "WebAPIConfigWidget"
    /\ v_result' = WebAPIConfigWidget_validate(v_fields, v_dirs)
    /\ UNCHANGED <<v_widget, v_fields, v_dirs, v_hidden, v_on_screen, own_vars, cm_vars, app_vars>>

V_DataSourceConfigWidget_validate ==
    /\ v_widget = "DataSourceConfigWidget"
    /\ v_result' = DataSourceConfigWidget_validate(v_fields, v_dirs)
    /\ UNCHANGED <<v_widget, v_fields, v_dirs, v_hidden, v_on_screen, own_vars, cm_vars, app_vars>>

V_MonitoringConfigWidget_validate_config ==
    /\ v_widget = "MonitoringConfigWidget"
    /\ v_result' = MonitoringConfigWidget_validate_config(v_fields, v_dirs)
    /\ UNCHANGED <<v_widget, v_fields, v_dirs, v_hidden, v_on_screen, own_vars, cm_vars, app_vars>>

ValidateNext ==
    \/ V_on_dbms_changed
    \/ V_BroadseaHostSection_validate
    \/ V_AtlasGUISection_validate
    \/ V_WebAPISection_validate
    \/ V_SecuritySection_validate
    \/ V_DataSourceSection_validate
    \/ V_BuildSection_validate
    \/ V_MonitoringSection_validate
    \/ V_WebAPIConfigWidget_validate
    \/ V_DataSourceConfigWidget_validate
    \/ V_MonitoringConfigWidget_validate_config

SpecValidate == ValidateInit /\ [][ValidateNext]_vars

(***************************************************************************)
(* The main window at work: the user types in fields and uses the File     *)
(* menu, the file dialogs return a name or nothing, reads and writes of    *)
(* files succeed or fail                                                   *)
(***************************************************************************)

\* the files the dialogs may name
FileNames == {"a.env", "b.env"}

\* what a file dialog returns: a name, or "" when cancelled
DialogAnswers == FileNames \cup {""}

\* what the user answers to a question
Replies == {"Yes", "No"}

\* what a read or a write of an existing file may raise, "" for nothing
Causes == {"", "[Errno 13] Permission denied"}

\* how a write ends: <<the cause of its failure, the file was truncated first>>
WriteOutcomes == {<<"", FALSE>>} \cup ((Causes \ {""}) \X BOOLEAN)

\* what the user types: <<tab, field, text>>
Typing ==
    { <<"Host", "HOST_PORT", <<"7", "0", "0", "0", "0">>>>,
      <<"Monitoring", "MONITORING_PATH", <<"a", "=", "b">>>> }

\* a file written by hand, with a section of a name and a key of it
HandWritten ==
    << <<"#", " ">> \o SectionWord \o <<":", " ", "H", "o", "s", "t">>,
       <<"HOST_PORT", "=", "1">> >>

\* ConfigurationApp.__init__
AppInit ==
    /\ current_file = None
    /\ sections = InitialSections
    /\ fs \in { [name \in FileNames |-> None],
                 [name \in FileNames |-> IF name = "a.env" THEN Some(HandWritten) ELSE None] }
    /\ status = "Ready"
    /\ msgbox = <<>>
    /\ loaded = NoCall
    /\ saved_sections = None
    /\ calls = <<>>
    /\ CMIdle
    /\ VIdle

\* the window's state
App ==
    [current_file |-> current_file, sections |-> sections, fs |-> fs,
     status |-> status, msgbox |-> msgbox, loaded |-> loaded]

\* the user types a text in a field of a tab
A_setText ==
    \E typed \in Typing :
        /\ DictGet(DictGet(sections, typed[1]), <<typed[2]>>) # typed[3]
        /\ sections' = DictSet(sections, typed[1],
                           DictSet(DictGet(sections, typed[1]), <<typed[2]>>, typed[3]))
        /\ msgbox' = <<>>
        /\ loaded' = NoCall
        /\ UNCHANGED <<current_file, fs, status, saved_sections, calls, cm_vars, v_vars>>

\* File > New
A_new_config ==
    \E reply \in Replies, cause \in Causes :
        \E next \in { new_config(App, reply, cause) } :
            /\ current_file' = next.current_file
            /\ sections' = next.sections
            /\ fs' = next.fs
            /\ status' = next.status
            /\ msgbox' = next.msgbox
            /\ loaded' = next.loaded
            /\ UNCHANGED <<saved_sections, calls, cm_vars, v_vars>>

\* File > Open
A_open_config ==
    \E reply \in Replies, check_cause \in Causes,
       filename \in DialogAnswers, load_cause \in Causes :
        \E next \in { open_config(App, reply, check_cause, filename, load_cause) } :
            /\ current_file' = next.current_file
            /\ sections' = next.sections
            /\ fs' = next.fs
            /\ status' = next.status
            /\ msgbox' = next.msgbox
            /\ loaded' = next.loaded
            /\ UNCHANGED <<saved_sections, calls, cm_vars, v_vars>>

\* File > Save
A_save_config ==
    \E filename \in DialogAnswers, outcome \in WriteOutcomes :
        \E next \in { save_config(App, filename, outcome[1], outcome[2]) } :
            /\ current_file' = next.current_file
            /\ sections' = next.sections
            /\ fs' = next.fs
            /\ status' = next.status
            /\ msgbox' = next.msgbox
            /\ loaded' = next.loaded
            /\ UNCHANGED <<saved_sections, calls, cm_vars, v_vars>>

\* File > Save As...
A_save_config_as ==
    \E filename \in DialogAnswers, outcome \in WriteOutcomes :
        \E next \in { save_config_as(App, filename, outcome[1], outcome[2]) } :
            /\ current_file' = next.current_file
            /\ sections' = next.sections
            /\ fs' = next.fs
            /\ status' = next.status
            /\ msgbox' = next.msgbox
            /\ loaded' = next.loaded
            /\ UNCHANGED <<saved_sections, calls, cm_vars, v_vars>>

Next ==
    \/ A_setText
    \/ A_new_config
    \/ A_open_config
    \/ A_save_config
    \/ A_save_config_as

Spec == AppInit /\ [][Next]_vars

(***************************************************************************)
(* One session of the main window over one file, with its history: what    *)
(* the fields held at the last successful save, and the calls of the last  *)
(* handler                                                                 *)
(***************************************************************************)

\* the file of the session
SessionFile == "a.env"

\* what a file dialog returns in the session
SessionAnswers == {SessionFile, ""}

\* ConfigurationApp.__init__, with no file on disk
SessionInit ==
    /\ current_file = None
    /\ sections = InitialSections
    /\ fs = [name \in FileNames |-> None]
    /\ status = "Ready"
    /\ msgbox = <<>>
    /\ loaded = NoCall
    /\ saved_sections = None
    /\ calls = <<>>
    /\ CMIdle
    /\ VIdle

\* the handler ended with a successful write
SaveSucceeded(trace) == trace[Len(trace)] = "update_status"

\* the user types a text in a field of a tab
S_setText ==
    \E typed \in Typing :
        /\ DictGet(DictGet(sections, typed[1]), <<typed[2]>>) # typed[3]
        /\ sections' = DictSet(sections, typed[1],
                           DictSet(DictGet(sections, typed[1]), <<typed[2]>>, typed[3]))
        /\ msgbox' = <<>>
        /\ loaded' = NoCall
        /\ calls' = <<"setText">>
        /\ UNCHANGED <<current_file, fs, status, saved_sections, cm_vars, v_vars>>

\* File > New
S_new_config ==
    \E reply \in Replies, cause \in Causes :
        \E next \in { new_config(App, reply, cause) } :
            /\ current_file' = next.current_file
            /\ sections' = next.sections
            /\ fs' = next.fs
            /\ status' = next.status
            /\ msgbox' = next.msgbox
            /\ loaded' = next.loaded
            /\ calls' = new_config_calls(App, reply, cause)
            /\ UNCHANGED <<saved_sections, cm_vars, v_vars>>

\* File > Open
S_open_config ==
    \E reply \in Replies, check_cause \in Causes,
       filename \in SessionAnswers, load_cause \in Causes :
        \E next \in { open_config(App, reply, check_cause, filename, load_cause) } :
            /\ current_file' = next.current_file
            /\ sections' = next.sections
            /\ fs' = next.fs
            /\ status' = next.status
            /\ msgbox' = next.msgbox
            /\ loaded' = next.loaded
            /\ calls' = open_config_calls(App, reply, check_cause, filename, load_cause)
            /\ UNCHANGED <<saved_sections, cm_vars, v_vars>>

\* File > Save
S_save_config ==
    \E filename \in SessionAnswers, outcome \in WriteOutcomes :
        \E next \in { save_config(App, filename, outcome[1], outcome[2]) },
           trace \in { save_config_calls(App, filename, outcome[1]) } :
            /\ current_file' = next.current_file
            /\ sections' = next.sections
            /\ fs' = next.fs
            /\ status' = next.status
            /\ msgbox' = next.msgbox
            /\ loaded' = next.loaded
            /\ calls' = trace
            /\ saved_sections' = IF SaveSucceeded(trace) THEN Some(sections)
                                 ELSE saved_sections
            /\ UNCHANGED <<cm_vars, v_vars>>

\* File > Save As...
S_save_config_as ==
    \E filename \in SessionAnswers, outcome \in WriteOutcomes :
        \E next \in { save_config_as(App, filename, outcome[1], outcome[2]) },
           trace \in { save_config_as_calls(App, filename, outcome[1]) } :
            /\ current_file' = next.current_file
            /\ sections' = next.sections
            /\ fs' = next.fs
            /\ status' = next.status
            /\ msgbox' = next.msgbox
            /\ loaded' = next.loaded
            /\ calls' = trace
            /\ saved_sections' = IF SaveSucceeded(trace) THEN Some(sections)
                                 ELSE saved_sections
            /\ UNCHANGED <<cm_vars, v_vars>>

SessionNext ==
    \/ S_setText
    \/ S_new_config
    \/ S_open_config
    \/ S_save_config
    \/ S_save_config_as

SpecSession == SessionInit /\ [][SessionNext]_vars

(***************************************************************************)
(* The Tools menu at work: the user types in fields, validates all         *)
(* sections and exports the configuration                                  *)
(***************************************************************************)

\* the file the export dialog may name
ExportNames == {"export.out"}

\* what the export file dialog returns: a name, or "" when cancelled
ExportAnswers == ExportNames \cup {""}

\* what the user types before validating or exporting: <<tab, field, text>>
ToolsTyping ==
    { <<"Host", "HOST_PORT", <<"7", "0", "0", "0", "0">>>>,
      <<"Host", "HOST_PORT", <<"²">>>>,
      <<"Atlas", "ATLAS_PORT", <<"x">>>>,
      <<"Security", "SECURITY_AUTH_PROVIDER", <<"o", "a", "u", "t", "h">>>>,
      <<"Monitoring", "MONITORING_PORT", <<"²">>>>,
      <<"Monitoring", "MONITORING_PATH", <<"a", "\"", "b">>>> }

\* ConfigurationApp.__init__, with no export file on disk
ToolsInit ==
    /\ current_file = None
    /\ sections = InitialSections
    /\ fs = [name \in ExportNames |-> None]
    /\ status = "Ready"
    /\ msgbox = <<>>
    /\ loaded = NoCall
    /\ saved_sections = None
    /\ calls = <<>>
    /\ CMIdle
    /\ VIdle

\* the user types a text in a field of a tab
T_setText ==
    /\ ~Aborted(msgbox)
    /\ \E typed \in ToolsTyping :
        /\ DictGet(DictGet(sections, typed[1]), <<typed[2]>>) # typed[3]
        /\ sections' = DictSet(sections, typed[1],
                           DictSet(DictGet(sections, typed[1]), <<typed[2]>>, typed[3]))
        /\ msgbox' = <<>>
        /\ loaded' = NoCall
        /\ UNCHANGED <<current_file, fs, status, saved_sections, calls, cm_vars, v_vars>>

\* Tools > Validate All
A_validate_all ==
    /\ ~Aborted(msgbox)
    /\ \E next \in { validate_all(App) } :
        /\ current_file' = next.current_file
        /\ sections' = next.sections
        /\ fs' = next.fs
        /\ status' = next.status
        /\ msgbox' = next.msgbox
        /\ loaded' = next.loaded
        /\ UNCHANGED <<saved_sections, calls, cm_vars, v_vars>>

\* Tools > Export...
A_export_config ==
    /\ ~Aborted(msgbox)
    /\ \E accepted \in BOOLEAN, i \in 1..Len(formats), filename \in ExportAnswers,
          outcome \in WriteOutcomes, installed \in BOOLEAN :
        \E next \in { export_config(App, accepted, formats[i], filename,
                                    outcome[1], outcome[2], installed) } :
            /\ current_file' = next.current_file
            /\ sections' = next.sections
            /\ fs' = next.fs
            /\ status' = next.status
            /\ msgbox' = next.msgbox
            /\ loaded' = next.loaded
            /\ UNCHANGED <<saved_sections, calls, cm_vars, v_vars>>

ToolsNext ==
    \/ T_setText
    \/ A_validate_all
    \/ A_export_config

SpecTools == ToolsInit /\ [][ToolsNext]_vars

(***************************************************************************)
(* One page of the configuration wizard at work: the user edits its fields *)
(* and the wizard validates the page                                       *)
(***************************************************************************)

\* the sections whose pages are followed
WizardSections == {"Atlas", "Security", "SOLR", "HADES"}

\* what the user types in a line edit of a page
WizardTyping(name) ==
    CASE name = "ATLAS_PORT" -> { <<>>, <<"²">>, <<"7", "0", "0", "0", "0">> }
      [] name = "SECURITY_LDAP_URL" -> { <<>>, <<"l", "d", "a", "p", ":", "/", "/", "h">> }
      [] name = "SOLR_VOCAB_ENDPOINT" -> { <<>>, <<"h", "t", "t", "p", ":", "/", "/", "s">>, <<"x">> }
      [] OTHER -> { <<>>, <<"x">> }

\* the items the user picks in the combo box of the Security page
WizardPicks == { <<"n", "o", "n", "e">>, <<"l", "d", "a", "p">>, <<"d", "b">> }

\* the fields of a kind on the page
FieldsOfType(section, types) ==
    { i \in 1..Len(SectionFields(section)) : SectionFields(section)[i].field_type \in types }

\* ConfigWizardPage(section), before the wizard is shown
WizardInit ==
    /\ v_widget \in WizardSections
    /\ \E page \in { ConfigWizardPage(v_widget) } :
        /\ v_fields = page.fields
        /\ v_hidden = page.hidden
    /\ v_dirs = {}
    /\ v_on_screen = FALSE
    /\ v_result = NoCall
    /\ provider_selector = <<>>
    /\ provider_stack = <<>>
    /\ current_page = ""
    /\ dialog_result = ""
    /\ CMIdle
    /\ AppIdle

\* the wizard is shown, or the user comes to this page
W_show ==
    /\ ~v_on_screen
    /\ v_on_screen' = TRUE
    /\ v_result' = NoCall
    /\ UNCHANGED <<v_widget, v_fields, v_dirs, v_hidden, own_vars, cm_vars, app_vars>>

\* the user leaves the page, or the wizard is closed
W_hide ==
    /\ v_on_screen
    /\ v_on_screen' = FALSE
    /\ v_result' = NoCall
    /\ UNCHANGED <<v_widget, v_fields, v_dirs, v_hidden, own_vars, cm_vars, app_vars>>

\* the user types in a line edit that is visible, that of a file field
\* included: textChanged fires update_field_visibility where it is connected
W_setText ==
    /\ \E i \in FieldsOfType(v_widget, {"text", "password", "file"}) :
        \E page \in { Page(v_fields, v_hidden) }, field \in { SectionFields(v_widget)[i] } :
        \E value \in WizardTyping(field.name) :
        /\ isVisible(page, v_on_screen, field.name)
        /\ value # DictGet(v_fields, <<field.name>>)
        /\ \E next \in { update_field_visibility(
                             Page(DictSet(v_fields, <<field.name>>, value), v_hidden),
                             Dependencies(SectionFields(v_widget)), field.name,
                             SectionFields(v_widget)) } :
            /\ v_fields' = next.fields
            /\ v_hidden' = next.hidden
    /\ v_result' = NoCall
    /\ UNCHANGED <<v_widget, v_dirs, v_on_screen, own_vars, cm_vars, app_vars>>

\* the user clicks a check box that is visible: stateChanged fires
\* update_field_visibility where it is connected
W_setChecked ==
    /\ \E i \in FieldsOfType(v_widget, {"checkbox"}) :
        \E page \in { Page(v_fields, v_hidden) }, field \in { SectionFields(v_widget)[i] } :
        /\ isVisible(page, v_on_screen, field.name)
        /\ \E next \in { update_field_visibility(
                             Page(DictSet(v_fields, <<field.name>>,
                                          BoolText(DictGet(v_fields, <<field.name>>) # BoolText(TRUE))),
                                  v_hidden),
                             Dependencies(SectionFields(v_widget)), field.name,
                             SectionFields(v_widget)) } :
            /\ v_fields' = next.fields
            /\ v_hidden' = next.hidden
    /\ v_result' = NoCall
    /\ UNCHANGED <<v_widget, v_dirs, v_on_screen, own_vars, cm_vars, app_vars>>

\* the user picks an item of a combo box that is visible: currentTextChanged fires
\* update_field_visibility where it is connected
W_setCurrentText ==
    /\ \E i \in FieldsOfType(v_widget, {"combo"}) :
        \E page \in { Page(v_fields, v_hidden) }, field \in { SectionFields(v_widget)[i] } :
        \E value \in WizardPicks :
        /\ isVisible(page, v_on_screen, field.name)
        /\ InSeq(value, field.options)
        /\ value # DictGet(v_fields, <<field.name>>)
        /\ \E next \in { update_field_visibility(
                             Page(DictSet(v_fields, <<field.name>>, value), v_hidden),
                             Dependencies(SectionFields(v_widget)), field.name,
                             SectionFields(v_widget)) } :
            /\ v_fields' = next.fields
            /\ v_hidden' = next.hidden
    /\ v_result' = NoCall
    /\ UNCHANGED <<v_widget, v_dirs, v_on_screen, own_vars, cm_vars, app_vars>>

\* ConfigWizard.validate_page(page); on_finish calls it through validate_all
\* once the wizard has finished
W_validate_page ==
    /\ v_result' = Returned(validate_page(Page(v_fields, v_hidden), v_on_screen,
                                          SectionFields(v_widget)))
    /\ UNCHANGED <<v_widget, v_fields, v_dirs, v_hidden, v_on_screen, own_vars, cm_vars, app_vars>>

WizardNext ==
    \/ W_show
    \/ W_hide
    \/ W_setText
    \/ W_setChecked
    \/ W_setCurrentText
    \/ W_validate_page

SpecWizard == WizardInit /\ [][WizardNext]_vars

(***************************************************************************)
(* SpecSecurity: SecurityConfigWidget and its provider selector            *)
(***************************************************************************)

\* SecurityConfigWidget()
SecurityInit ==
    /\ v_widget = "SecurityConfigWidget"
    /\ \E widget \in { SecurityConfigWidget } :
        /\ v_fields = widget.input_widgets
        /\ provider_selector = widget.provider_selector
        /\ provider_stack = widget.provider_stack
    /\ v_dirs = {}
    /\ v_hidden = {}
    /\ v_on_screen = FALSE
    /\ v_result = NoCall
    /\ current_page = ""
    /\ dialog_result = ""
    /\ CMIdle
    /\ AppIdle

\* the user picks another entry of provider_selector: currentTextChanged
\* fires on_provider_changed with the new text
P_on_provider_changed ==
    /\ v_widget = "SecurityConfigWidget"
    /\ \E i \in 1..Len(ProviderSelectorItems) :
        /\ ProviderSelectorItems[i] # provider_selector
        /\ \E widget \in { on_provider_changed(
                               SecurityWidget(ProviderSelectorItems[i], provider_stack, v_fields),
                               ProviderSelectorItems[i]) } :
            /\ provider_selector' = widget.provider_selector
            /\ provider_stack' = widget.provider_stack
            /\ v_fields' = widget.input_widgets
    /\ UNCHANGED <<v_widget, v_dirs, v_hidden, v_on_screen, v_result, current_page, dialog_result,
                   cm_vars, app_vars>>

\* the user picks another option of the ATLAS_SECURITY_PROVIDER_TYPE combo;
\* nothing is connected to it
P_setCurrentText ==
    /\ v_widget = "SecurityConfigWidget"
    /\ \E i \in 1..Len(ProviderTypeOptions) :
        /\ ProviderTypeOptions[i] # DictGet(v_fields, <<"ATLAS_SECURITY_PROVIDER_TYPE">>)
        /\ v_fields' = DictSet(v_fields, <<"ATLAS_SECURITY_PROVIDER_TYPE">>, ProviderTypeOptions[i])
    /\ UNCHANGED <<v_widget, v_dirs, v_hidden, v_on_screen, v_result, own_vars, cm_vars, app_vars>>

SecurityNext ==
    \/ P_on_provider_changed
    \/ P_setCurrentText

SpecSecurity == SecurityInit /\ [][SecurityNext]_vars

(***************************************************************************)
(* SpecFinish: the wizard from show() to the end of on_finish              *)
(***************************************************************************)

\* the user changes at most this many fields before the wizard finishes
MaxWizardEdited == 2

\* what .env holds when the wizard starts: no file, or a file of one line
EnvFiles == { None, Some(<< <<"O", "L", "D", "=", "1">> >>) }

\* the str() of the error open() or a write raises, "" if none does
EnvCauses == { "", "[Errno 13] Permission denied: '.env'" }

\* the fields of the wizard that hold another value than after construction
EditedFields(pages) ==
    { <<i, j>> \in (1..Len(pages)) \X (1..6) :
          /\ j <= Len(pages[i][2])
          /\ pages[i][2][j][2] # ConfigWizard.pages[i][2][j][2] }

\* the number of the section in WizardSectionList
SectionNumber(section) ==
    CHOOSE i \in 1..Len(WizardSectionList) : WizardSectionList[i][1] = section

\* main: ConfigWizard(create_sections())
FinishInit ==
    /\ v_widget = "ConfigWizard"
    /\ v_fields = ConfigWizard.pages
    /\ v_hidden = ConfigWizard.hidden
    /\ v_on_screen = ConfigWizard.visible
    /\ current_page = ConfigWizard.current
    /\ dialog_result = ConfigWizard.result
    /\ v_dirs = {}
    /\ v_result = NoCall
    /\ provider_selector = <<>>
    /\ provider_stack = <<>>
    /\ current_file = None
    /\ sections = <<>>
    /\ fs \in [{EnvFile} -> EnvFiles]
    /\ status = ""
    /\ msgbox = <<>>
    /\ loaded = NoCall
    /\ saved_sections = None
    /\ calls = <<>>
    /\ CMIdle

\* main: wizard.show()
F_show ==
    /\ ~v_on_screen
    /\ calls = <<>>
    /\ v_on_screen' = TRUE
    /\ calls' = <<"show">>
    /\ UNCHANGED <<v_widget, v_fields, v_dirs, v_hidden, v_result, own_vars, cm_vars,
                   current_file, sections, fs, status, msgbox, loaded, saved_sections>>

\* the Next button: QWizard.next()
F_next ==
    /\ v_on_screen
    /\ SectionNumber(current_page) < Len(WizardSectionList)
    /\ current_page' = WizardSectionList[SectionNumber(current_page) + 1][1]
    /\ calls' = <<"next">>
    /\ UNCHANGED <<v_widget, v_fields, v_dirs, v_hidden, v_on_screen, v_result,
                   provider_selector, provider_stack, dialog_result, cm_vars,
                   current_file, sections, fs, status, msgbox, loaded, saved_sections>>

\* the Back button: QWizard.back()
F_back ==
    /\ v_on_screen
    /\ SectionNumber(current_page) > 1
    /\ current_page' = WizardSectionList[SectionNumber(current_page) - 1][1]
    /\ calls' = <<"back">>
    /\ UNCHANGED <<v_widget, v_fields, v_dirs, v_hidden, v_on_screen, v_result,
                   provider_selector, provider_stack, dialog_result, cm_vars,
                   current_file, sections, fs, status, msgbox, loaded, saved_sections>>

\* the user types in a line edit of the current page that is visible
F_setText ==
    /\ v_on_screen
    /\ \E i \in FieldsOfType(current_page, {"text", "password", "file"}) :
        \E field \in { SectionFields(current_page)[i] } :
        \E value \in WizardTyping(field.name) :
        /\ field.name \notin v_hidden
        /\ value # DictGet(DictGet(v_fields, current_page), <<field.name>>)
        /\ \E next \in { update_field_visibility(
                             Page(DictSet(DictGet(v_fields, current_page), <<field.name>>, value),
                                  v_hidden),
                             Dependencies(SectionFields(current_page)), field.name,
                             SectionFields(current_page)) } :
            /\ v_fields' = DictSet(v_fields, current_page, next.fields)
            /\ v_hidden' = next.hidden
    /\ Cardinality(EditedFields(v_fields')) <= MaxWizardEdited
    /\ calls' = <<"setText">>
    /\ UNCHANGED <<v_widget, v_dirs, v_on_screen, v_result, own_vars, cm_vars,
                   current_file, sections, fs, status, msgbox, loaded, saved_sections>>

\* the user clicks a check box of the current page that is visible
F_setChecked ==
    /\ v_on_screen
    /\ \E i \in FieldsOfType(current_page, {"checkbox"}) :
        \E field \in { SectionFields(current_page)[i] } :
        /\ field.name \notin v_hidden
        /\ \E next \in { update_field_visibility(
                             Page(DictSet(DictGet(v_fields, current_page), <<field.name>>,
                                          BoolText(DictGet(DictGet(v_fields, current_page),
                                                           <<field.name>>) # BoolText(TRUE))),
                                  v_hidden),
                             Dependencies(SectionFields(current_page)), field.name,
                             SectionFields(current_page)) } :
            /\ v_fields' = DictSet(v_fields, current_page, next.fields)
            /\ v_hidden' = next.hidden
    /\ Cardinality(EditedFields(v_fields')) <= MaxWizardEdited
    /\ calls' = <<"setChecked">>
    /\ UNCHANGED <<v_widget, v_dirs, v_on_screen, v_result, own_vars, cm_vars,
                   current_file, sections, fs, status, msgbox, loaded, saved_sections>>

\* the user picks an item of a combo box of the current page
F_setCurrentText ==
    /\ v_on_screen
    /\ \E i \in FieldsOfType(current_page, {"combo"}) :
        \E field \in { SectionFields(current_page)[i] } :
        \E value \in WizardPicks :
        /\ field.name \notin v_hidden
        /\ InSeq(value, field.options)
        /\ value # DictGet(DictGet(v_fields, current_page), <<field.name>>)
        /\ \E next \in { update_field_visibility(
                             Page(DictSet(DictGet(v_fields, current_page), <<field.name>>, value),
                                  v_hidden),
                             Dependencies(SectionFields(current_page)), field.name,
                             SectionFields(current_page)) } :
            /\ v_fields' = DictSet(v_fields, current_page, next.fields)
            /\ v_hidden' = next.hidden
    /\ Cardinality(EditedFields(v_fields')) <= MaxWizardEdited
    /\ calls' = <<"setCurrentText">>
    /\ UNCHANGED <<v_widget, v_dirs, v_on_screen, v_result, own_vars, cm_vars,
                   current_file, sections, fs, status, msgbox, loaded, saved_sections>>

\* The Finish button of the last page: QWizard.accept() is done(Accepted),
\* and finished calls on_finish
F_accept ==
    /\ v_on_screen
    /\ SectionNumber(current_page) = Len(WizardSectionList)
    /\ \E cause \in EnvCauses :
        \E wizard \in { done(Wizard(v_fields, v_hidden, v_on_screen, current_page, dialog_result),
                             "Accepted") } :
        \E outcome \in on_finish(wizard, fs, cause) :
            /\ v_on_screen' = wizard.visible
            /\ dialog_result' = wizard.result
            /\ v_result' = outcome.issues
            /\ msgbox' = outcome.msgbox
            /\ calls' = <<"on_finish">> \o outcome.calls
            /\ fs' = outcome.fs
    /\ UNCHANGED <<v_widget, v_fields, v_dirs, v_hidden, provider_selector, provider_stack,
                   current_page, cm_vars, current_file, sections, status, loaded,
                   saved_sections>>

\* The Cancel button, Escape or the window's close button: QWizard.reject()
\* is done(Rejected), and finished calls on_finish
F_reject ==
    /\ v_on_screen
    /\ \E cause \in EnvCauses :
        \E wizard \in { done(Wizard(v_fields, v_hidden, v_on_screen, current_page, dialog_result),
                             "Rejected") } :
        \E outcome \in on_finish(wizard, fs, cause) :
            /\ v_on_screen' = wizard.visible
            /\ dialog_result' = wizard.result
            /\ v_result' = outcome.issues
            /\ msgbox' = outcome.msgbox
            /\ calls' = <<"on_finish">> \o outcome.calls
            /\ fs' = outcome.fs
    /\ UNCHANGED <<v_widget, v_fields, v_dirs, v_hidden, provider_selector, provider_stack,
                   current_page, cm_vars, current_file, sections, status, loaded,
                   saved_sections>>

FinishNext ==
    \/ F_show
    \/ F_next
    \/ F_back
    \/ F_setText
    \/ F_setChecked
    \/ F_setCurrentText
    \/ F_accept
    \/ F_reject

SpecFinish == FinishInit /\ [][FinishNext]_vars

(***************************************************************************)
(* SpecBuild: BuildConfigWidget and its two buttons                        *)
(***************************************************************************)

\* the user changes at most this many fields of the widget
MaxBuildEdited == 2

\* what the user types in a line edit of the widget
BuildTyping(name) ==
    CASE name = "ATLAS_GITHUB_URL" -> { <<>>, <<"h", "t", "t", "p", "s", ":", "/", "/", "g", "i", "t", "h", "u", "b", ".", "c", "o", "m", "/", "a", "/", "b", ".", "g", "i", "t", "#", "v", "1">>, <<"h", "t", "t", "p", ":", "/", "/", "a", "/", "b">> }
      [] name = "WEBAPI_GITHUB_URL" -> { <<>>, <<"h", "t", "t", "p", "s", ":", "/", "/", "g", "i", "t", "h", "u", "b", ".", "c", "o", "m", "/", "a">> }
      [] name = "SOLR_VOCAB_ENDPOINT" -> { <<>>, <<"h", "t", "t", "p", ":", "/", "/", "s", ":", "1", "/">>, <<"s">> }
      [] OTHER -> { <<>>, <<"x">> }

\* the fields of the widget that hold another value than after construction
BuildEdited(widgets) ==
    { i \in 1..Len(widgets) :
          widgets[i][2] # InputWidgets(BuildFieldConfigs, BuildInputOrder)[i][2] }

\* BuildConfigWidget()
BuildInit ==
    /\ v_widget = "BuildConfigWidget"
    /\ v_fields = InputWidgets(BuildFieldConfigs, BuildInputOrder)
    /\ v_dirs = {}
    /\ v_hidden = {}
    /\ v_on_screen = FALSE
    /\ v_result = NoCall
    /\ provider_selector = <<>>
    /\ provider_stack = <<>>
    /\ current_page = ""
    /\ dialog_result = ""
    /\ CMIdle
    /\ AppIdle

\* the user types in a line edit
B_setText ==
    /\ \E i \in 1..Len(BuildInputOrder) :
        \E value \in BuildTyping(BuildInputOrder[i]) :
        /\ ConfigOf(BuildFieldConfigs, BuildInputOrder[i]).options = <<>>
        /\ value # DictGet(v_fields, <<BuildInputOrder[i]>>)
        /\ v_fields' = DictSet(v_fields, <<BuildInputOrder[i]>>, value)
    /\ Cardinality(BuildEdited(v_fields')) <= MaxBuildEdited
    /\ v_result' = NoCall
    /\ msgbox' = <<>>
    /\ calls' = <<"setText">>
    /\ UNCHANGED <<v_widget, v_dirs, v_hidden, v_on_screen, own_vars, cm_vars,
                   current_file, sections, fs, status, loaded, saved_sections>>

\* the user picks an option of a combo box
B_setCurrentText ==
    /\ \E i \in 1..Len(BuildInputOrder) :
        \E k \in 1..Len(ConfigOf(BuildFieldConfigs, BuildInputOrder[i]).options) :
        /\ ConfigOf(BuildFieldConfigs, BuildInputOrder[i]).options[k]
               # DictGet(v_fields, <<BuildInputOrder[i]>>)
        /\ v_fields' = DictSet(v_fields, <<BuildInputOrder[i]>>,
                               ConfigOf(BuildFieldConfigs, BuildInputOrder[i]).options[k])
    /\ Cardinality(BuildEdited(v_fields')) <= MaxBuildEdited
    /\ v_result' = NoCall
    /\ msgbox' = <<>>
    /\ calls' = <<"setCurrentText">>
    /\ UNCHANGED <<v_widget, v_dirs, v_hidden, v_on_screen, own_vars, cm_vars,
                   current_file, sections, fs, status, loaded, saved_sections>>

\* the button "Validate Configuration"
B_validate_config ==
    /\ \E validation \in { BuildConfigWidget_validate_config(v_fields) } :
        /\ v_result' = Returned(validation.issues)
        /\ msgbox' = validation.msgbox
    /\ calls' = <<"validate_config">>
    /\ UNCHANGED <<v_widget, v_fields, v_dirs, v_hidden, v_on_screen, own_vars, cm_vars,
                   current_file, sections, fs, status, loaded, saved_sections>>

\* the button "Generate Docker Compose"
B_generate_docker_compose ==
    /\ \E generation \in { generate_docker_compose(v_fields) } :
        /\ v_result' = Returned(generation.issues)
        /\ msgbox' = generation.msgbox
    /\ calls' = <<"generate_docker_compose">>
    /\ UNCHANGED <<v_widget, v_fields, v_dirs, v_hidden, v_on_screen, own_vars, cm_vars,
                   current_file, sections, fs, status, loaded, saved_sections>>

BuildNext ==
    \/ B_setText
    \/ B_setCurrentText
    \/ B_validate_config
    \/ B_generate_docker_compose

SpecBuild == BuildInit /\ [][BuildNext]_vars

(***************************************************************************)
(* Properties of the codec                                                 *)
(***************************************************************************)

HasNewline(s) == Positions(s, "\n") # {} \/ Positions(s, "\r") # {}

Trimmed(s) == Strip(s) = s

\* no value holds a newline or leading or trailing whitespace
CleanValues(c) ==
    \A i \in 1..Len(c) : \A j \in 1..Len(c[i][2]) :
        ~HasNewline(c[i][2][j][2]) /\ Trimmed(c[i][2][j][2])

\* no key holds a newline, an '=', a leading '#' or surrounding whitespace
CleanKeys(c) ==
    \A i \in 1..Len(c) : \A j \in 1..Len(c[i][2]) :
        LET k == c[i][2][j][1]
        IN  /\ ~HasNewline(k)
            /\ Trimmed(k)
            /\ Positions(k, "=") = {}
            /\ ~StartsWith(k, <<"#">>)

\* no section name holds a newline, a ':' or surrounding whitespace
CleanNames(c) ==
    \A i \in 1..Len(c) :
        /\ ~HasNewline(c[i][1])
        /\ Trimmed(c[i][1])
        /\ Positions(c[i][1], ":") = {}

\* the document with the keys of the section named "" (if any) left out
WithoutKeysOfUnnamed(c) ==
    [i \in 1..Len(c) |-> IF c[i][1] = <<>> THEN <<c[i][1], <<>>>> ELSE c[i]]

\* load_config has just returned the document read from the file that
\* save_config wrote for cm_doc
LoadedWhatWasSaved ==
    /\ cm_result.kind = "returned"
    /\ cm_file = Some(Encode(cm_doc))

AtLine ==
    /\ cm_pc = "loading"
    /\ line_no <= Len(cm_file[1])
    /\ line_no' = line_no + 1

TheLine == Strip(cm_file[1][line_no])

\* a line that does not start with '#' and contains '='
IsKeyLine(line) == ~StartsWith(line, <<"#">>) /\ Positions(line, "=") # {}

\* the line's text before and after its i-th character, both trimmed
KeyAt(line, i) == Strip(SubSeq(line, 1, i - 1))

ValueAt(line, i) == Strip(SubSeq(line, i + 1, Len(line)))

\* the pair is an entry of the section of the config
Recorded(cfg, section, key, value) ==
    /\ \E i \in 1..Len(cfg) : cfg[i][1] = section
    /\ <<key, value>> \in AsMap(DictGet(cfg, section))

\* C2 as stated: a line that does not start with '#' and contains '=' is
\* recorded under the most recently opened section whenever a header has been
\* read (current_section is not None), and is ignored before the first header.
C2_KeyLineRecordedAsStated ==
    [][ (AtLine /\ IsKeyLine(TheLine))
          => IF current_section # None
             THEN \E i \in Positions(TheLine, "=") :
                     Recorded(config', current_section[1],
                              KeyAt(TheLine, i), ValueAt(TheLine, i))
             ELSE config' = config /\ current_section' = current_section
      ]_vars

\* C3: a KEY=value line under a header with a non-empty name is split on its
\* first '=' only: the key is the trimmed text before it, the value the
\* trimmed remainder with every later '='.
C3_SplitOnFirstEquals ==
    [][ (AtLine /\ IsKeyLine(TheLine) /\ Truthy(current_section))
          => LET first == CHOOSE i \in Positions(TheLine, "=") :
                              \A j \in Positions(TheLine, "=") : i <= j
             IN  /\ Recorded(config', current_section[1],
                             KeyAt(TheLine, first), ValueAt(TheLine, first))
                 /\ Positions(KeyAt(TheLine, first), "=") = {}
      ]_vars

Host == <<"H", "o", "s", "t">>

\* the line FOO=bar=baz under the header of Host has been decoded to
\* FOO -> "bar=baz"
C3_Witness ==
    /\ cm_pc = "loading"
    /\ config = << <<Host, << << <<"F", "O", "O">>,
                               <<"b", "a", "r", "=", "b", "a", "z">> >> >> >> >>

\* C4: a line starting with '#' that contains 'Section' makes the trimmed
\* text after its last ':' the current section and gives it an empty map,
\* leaving the other sections alone; a '#' line without 'Section' changes
\* neither the current section nor the config.
C4_HeaderOpensSection ==
    [][ (AtLine /\ StartsWith(TheLine, <<"#">>))
          => IF Contains(TheLine, SectionWord)
             THEN /\ current_section' # None
                  /\ DictHas(config', current_section'[1])
                  /\ DictGet(config', current_section'[1]) = <<>>
                  /\ Positions(TheLine, ":") # {}
                       => LET last == CHOOSE i \in Positions(TheLine, ":") :
                                         \A j \in Positions(TheLine, ":") : j <= i
                          IN  current_section'[1] = ValueAt(TheLine, last)
                  /\ \A i \in 1..Len(config) :
                        config[i][1] # current_section'[1]
                            => config[i] \in {config'[n] : n \in 1..Len(config')}
             ELSE config' = config /\ current_section' = current_section
      ]_vars

\* a second header named Host has just discarded the key decoded under the
\* first one
C4_Witness ==
    /\ cm_pc = "loading"
    /\ line_no = 4
    /\ IsSectionHeader(Strip(cm_file[1][1]))
    /\ IsKeyLine(Strip(cm_file[1][2]))
    /\ cm_file[1][3] = cm_file[1][1]
    /\ config = << <<Host, <<>>>> >>

\* load_config has returned a document, save_config has written it back,
\* and load_config has just returned what it read from that file
ReadWrittenRead ==
    /\ cm_prev # None
    /\ cm_pc = "idle"
    /\ cm_result.kind = "returned"
    /\ cm_file = Some(Encode(cm_prev[1]))

\* C29: the codec's normalization is idempotent: the document that
\* load_config returns, written by save_config and read again by
\* load_config, comes back the same
C29_NormalizationIdempotent ==
    ReadWrittenRead => ConfigEq(cm_result.value, cm_prev[1])

\* a document with a section Host and a key whose value holds '=' was read,
\* written back and read again
C29_Witness ==
    /\ ReadWrittenRead
    /\ cm_prev = Some(<< <<Host, << << <<"K">>, <<"b", "=", "c">> >> >> >> >>)
    /\ ConfigEq(cm_result.value, cm_prev[1])

(***************************************************************************)
(* Properties of validation                                                *)
(***************************************************************************)

\* the issues the last validate reported: the list it returned or showed
Reported ==
    IF v_result.kind \in {"returned", "QMessageBox.warning"} THEN v_result.value ELSE <<>>

\* how many times an issue was reported
Count(issue) == Cardinality({ i \in 1..Len(Reported) : Reported[i] = issue })

\* str(n) of an integer, as a text
IntText(n) == IF n < 0 THEN <<"-">> \o StrText(0 - n) ELSE StrText(n)

\* the text is the decimal notation of an integer of lo..hi
Within(value, lo, hi) ==
    /\ value # <<>>
    /\ \A i \in 1..Len(value) : IsAsciiDigit(value[i])
    /\ lo <= IntOf(value) /\ IntOf(value) <= hi

\* a field of the class that is checked against lo..hi, and the issue that
\* says the value is outside it
Ranged(class, field, lo, hi, issue) ==
    [class |-> class, field |-> field, lo |-> lo, hi |-> hi, issue |-> issue]

PortIssue(field) == field \o " must be between 0 and 65535"

RangedFields ==
    { Ranged("BroadseaHostSection", "HOST_PORT", 0, 65535, PortIssue("Port")),
      Ranged("AtlasGUISection", "ATLAS_PORT", 0, 65535, PortIssue("ATLAS_PORT")),
      Ranged("AtlasGUISection", "ATLAS_DB_PORT", 0, 65535, PortIssue("ATLAS_DB_PORT")),
      Ranged("WebAPISection", "WEBAPI_PORT", 0, 65535, PortIssue("WEBAPI_PORT")),
      Ranged("WebAPISection", "WEBAPI_DB_PORT", 0, 65535, PortIssue("WEBAPI_DB_PORT")),
      Ranged("SecuritySection", "SECURITY_DB_PORT", 0, 65535, PortIssue("SECURITY_DB_PORT")),
      Ranged("DataSourceSection", "DATASOURCE_DB_PORT", 0, 65535,
             PortIssue("DATASOURCE_DB_PORT")),
      Ranged("MonitoringSection", "MONITORING_PORT", 0, 65535, PortIssue("MONITORING_PORT")),
      Ranged("MonitoringConfigWidget", "METRICS_PORT", 1024, 65535,
             "Metrics port must be between 1024 and 65535") }
    \cup { Ranged("MonitoringSection", numeric_fields[i][1], numeric_fields[i][2],
                  numeric_fields[i][3], NumericMessage(numeric_fields[i])) :
               i \in 1..Len(numeric_fields) }

\* C7: after a validate that returned, a ranged field holding lo-1 or hi+1
\* has exactly one range issue, and one holding an integer of lo..hi has none
C7_OneRangeIssueAsStated ==
    v_result.kind \in {"returned", "QMessageBox.warning", "QMessageBox.information"} =>
        \A rf \in RangedFields :
            rf.class = v_widget =>
                LET value == text(v_fields, rf.field)
                IN  /\ value \in {IntText(rf.lo - 1), IntText(rf.hi + 1)} =>
                           Count(rf.issue) = 1
                    /\ Within(value, rf.lo, rf.hi) => Count(rf.issue) = 0

\* C8: validating the Host section with HOST_PORT "70000" yields the issue
\* "HOST_PORT must be between 0 and 65535"
C8_HostPortIssueAsStated ==
    /\ v_widget = "BroadseaHostSection"
    /\ text(v_fields, "HOST_PORT") = <<"7", "0", "0", "0", "0">>
    /\ v_result.kind # "none"
    => Count("HOST_PORT must be between 0 and 65535") >= 1

\* a port-like or percentage-like field of the class, the range the
\* field is said to have, and the issues its checks may report
Checked(class, field, lo, hi, issues) ==
    [class |-> class, field |-> field, lo |-> lo, hi |-> hi, issues |-> issues]

PortIssues(label) ==
    { label \o " must be a number", label \o " must be between 0 and 65535" }

PercentIssues(field) ==
    { field \o " must be a number", field \o " must be between 0 and 100 percent" }

PortLikeFields ==
    { Checked("BroadseaHostSection", "HOST_PORT", 0, 65535, PortIssues("Port")),
      Checked("AtlasGUISection", "ATLAS_PORT", 0, 65535, PortIssues("ATLAS_PORT")),
      Checked("AtlasGUISection", "ATLAS_DB_PORT", 0, 65535, PortIssues("ATLAS_DB_PORT")),
      Checked("WebAPISection", "WEBAPI_PORT", 0, 65535, PortIssues("WEBAPI_PORT")),
      Checked("WebAPISection", "WEBAPI_DB_PORT", 0, 65535, PortIssues("WEBAPI_DB_PORT")),
      Checked("SecuritySection", "SECURITY_DB_PORT", 0, 65535,
              PortIssues("SECURITY_DB_PORT")),
      Checked("DataSourceSection", "DATASOURCE_DB_PORT", 0, 65535,
              PortIssues("DATASOURCE_DB_PORT")),
      Checked("MonitoringSection", "MONITORING_PORT", 0, 65535,
              PortIssues("MONITORING_PORT")),
      Checked("DataSourceConfigWidget", "CDM_CONNECTIONDETAILS_PORT", 0, 65535,
              { "CDM_CONNECTIONDETAILS_PORT is required",
                "CDM_CONNECTIONDETAILS_PORT has invalid format",
                "Port must be a number", "Port number must be between 1 and 65535" }),
      Checked("MonitoringConfigWidget", "METRICS_PORT", 0, 65535,
              { "METRICS_PORT is required", "METRICS_PORT has invalid format",
                "METRICS_PORT must be a number", "METRICS_PORT must be at least 1024",
                "METRICS_PORT must be no more than 65535",
                "Metrics port must be between 1024 and 65535" }) }

PercentLikeFields ==
    { Checked("MonitoringSection", field, 0, 100, PercentIssues(field)) :
          field \in ThresholdFieldNames }

\* C9: after a validate, a port-like field holding an integer of 0..65535 and a
\* percentage-like field holding one of 0..100 have no issue, and one holding
\* anything else has an issue reported
C9_ExactRangeAsStated ==
    v_result.kind # "none" =>
        \A cf \in PortLikeFields \cup PercentLikeFields :
            cf.class = v_widget =>
                (Within(text(v_fields, cf.field), cf.lo, cf.hi)
                    <=> \A issue \in cf.issues : Count(issue) = 0)

\* a field of the class that takes one of a list of options, and the issue
\* that says the value is not one of them
Enum(class, field, options, issue) ==
    [class |-> class, field |-> field, options |-> options, issue |-> issue]

OneOfIssue(field, options) == field \o " must be one of: " \o Join(options)

BoolIssue(field) == field \o " must be either 'true' or 'false'"

Bool(class, field) == Enum(class, field, <<"true", "false">>, BoolIssue(field))

EnumFields ==
    { Enum("BroadseaHostSection", "HOST_PROTOCOL", <<"http", "https">>,
           "Protocol must be either 'http' or 'https'"),
      Enum("BuildSection", "BUILD_MODE", valid_modes, OneOfIssue("BUILD_MODE", valid_modes)),
      Enum("DataSourceSection", "DATASOURCE_DIALECT", valid_dialects,
           OneOfIssue("DATASOURCE_DIALECT", valid_dialects)),
      Enum("SecuritySection", "SECURITY_AUTH_PROVIDER", AuthProviders,
           OneOfIssue("SECURITY_AUTH_PROVIDER", AuthProviders)),
      Enum("MonitoringSection", "MONITORING_LOG_LEVEL", valid_log_levels,
           OneOfIssue("MONITORING_LOG_LEVEL", valid_log_levels)),
      Bool("WebAPISection", "WEBAPI_CORS_ENABLED"),
      Bool("WebAPISection", "WEBAPI_SECURITY_ENABLED"),
      Bool("SecuritySection", "SECURITY_ENABLED"),
      Bool("SecuritySection", "SECURITY_SSL_ENABLED"),
      Bool("BuildSection", "BUILD_CLEAN"),
      Bool("BuildSection", "BUILD_PARALLEL"),
      Bool("BuildSection", "BUILD_SKIP_TESTS"),
      Bool("BuildSection", "BUILD_SKIP_LINT"),
      Bool("BuildSection", "BUILD_SKIP_DOCS"),
      Bool("MonitoringSection", "MONITORING_ENABLED") }

\* the domain issues a validate is to emit for an enum-like field: one when
\* the lower-cased value is not among the options, none when it is
DomainIssues(ef) == IF In(Lower(text(v_fields, ef.field)), ef.options) THEN 0 ELSE 1

\* C10: after a validate, every enum-like field of the section has exactly one
\* domain issue if its lower-cased value is not among its options, else none
C10_OneDomainIssueAsStated ==
    v_result.kind # "none" =>
        \A ef \in EnumFields :
            ef.class = v_widget => Count(ef.issue) = DomainIssues(ef)

\* the three fields SecuritySection.validate requires under OAuth
oauth_fields ==
    <<"SECURITY_OAUTH_CLIENT_ID", "SECURITY_OAUTH_CLIENT_SECRET",
      "SECURITY_OAUTH_CALLBACK_URL">>

OAuthIssue(field) == field \o " is required when using OAuth"

\* C13: after SecuritySection.validate, with SECURITY_AUTH_PROVIDER "oauth"
\* every empty OAuth field has an issue naming it as required under OAuth,
\* and with a provider that is not oauth in any letter case none has
C13_OAuthRequiredAsStated ==
    v_widget = "SecuritySection" /\ v_result.kind # "none" =>
        \A i \in 1..Len(oauth_fields) :
            /\ text(v_fields, "SECURITY_AUTH_PROVIDER") = <<"o", "a", "u", "t", "h">>
               /\ text(v_fields, oauth_fields[i]) = <<>>
               => Count(OAuthIssue(oauth_fields[i])) >= 1
            /\ Lower(text(v_fields, "SECURITY_AUTH_PROVIDER")) # <<"o", "a", "u", "t", "h">>
               => Count(OAuthIssue(oauth_fields[i])) = 0

\* C15: a section's validate returns an issue list for every assignment of
\* texts to its fields, it never raises
C15_ValidateReturnsAsStated ==
    v_widget \in SectionClasses /\ v_result.kind # "none" => v_result.kind = "returned"

\* the ConfigField registry of a widget class of sections.py
WidgetConfigs(class) ==
    CASE class = "WebAPIConfigWidget"     -> WebAPIFieldConfigs
      [] class = "DataSourceConfigWidget" -> DataSourceFieldConfigs
      [] class = "MonitoringConfigWidget" -> MonitoringFieldConfigs

AllDigits(v) == v # <<>> /\ \A i \in 1..Len(v) : IsAsciiDigit(v[i])

\* the value is a JDBC URL and nothing more: the scheme, a host, a port and a
\* database name that runs to the end of the value
WholeJdbc(value) ==
    \E p \in JdbcSchemes :
        /\ AfterScheme(value, p) # 0
        /\ AfterScheme(value, p) <= Len(value)
        /\ \A k \in AfterScheme(value, p)..Len(value) : IsNameChar(value[k])

\* the value matches the pattern over its whole length, every alternative of
\* the pattern taken between the ^ and the $
FullMatch(pattern, value) ==
    CASE pattern = "^\\d+$" -> AllDigits(value)
      [] pattern = "^-1|\\d+$" -> value = <<"-", "1">> \/ AllDigits(value)
      [] pattern = "^0(\\.\\d+)?|1(\\.0)?$" ->
           \/ value \in { <<"0">>, <<"1">>, <<"1", ".", "0">> }
           \/ StartsWith(value, <<"0", ".">>) /\ AllDigits(SubSeq(value, 3, Len(value)))
      [] pattern = "^jdbc:(postgresql|mysql|sqlserver|oracle):\\/\\/[\\w\\-\\.]+:\\d+\\/[\\w\\-]+" ->
           WholeJdbc(value)
      [] pattern = "^https?:\\/\\/[\\w\\-\\.]+:\\d+\\/.*$" ->
           HttpMatch(value) /\ \A k \in 1..Len(value) : value[k] # "\n"

FormatIssue(key) == key \o " has invalid format"

\* C14: after a widget's validate, every field with a validation pattern
\* and a non-empty value has the issue "<key> has invalid format" if the
\* value does not match the pattern over its whole length, and has no such
\* issue if it does
C14_WholeValueMatchedAsStated ==
    v_widget \in WidgetClasses /\ v_result.kind # "none" =>
        \A i \in 1..Len(v_fields) :
            /\ ConfigOf(WidgetConfigs(v_widget), v_fields[i][1][1]).validation_pattern # None
            /\ v_fields[i][2] # <<>>
            => ( Count(FormatIssue(v_fields[i][1][1])) = 0
                 <=> FullMatch(ConfigOf(WidgetConfigs(v_widget),
                                        v_fields[i][1][1]).validation_pattern[1],
                               v_fields[i][2]) )

\* the issues a widget's validate may add for a field besides "<key> is
\* required", when the field is empty
OtherIssues(key) ==
    { FormatIssue(key) }
    \cup (CASE key = "CACHE_GENERATION_INVALIDAFTERDAYS" ->
                 { "Cache invalidation days must be a number",
                   "Cache invalidation days must be -1 or greater" }
            [] key = "CACHE_GENERATION_CLEANUPINTERVAL" ->
                 { "Cache cleanup interval must be a number",
                   "Cache cleanup interval must be at least 1000ms" }
            [] key = "CDM_CONNECTIONDETAILS_PORT" ->
                 { "Port must be a number", "Port number must be between 1 and 65535" }
            [] OTHER -> { })

\* C11: after the validate of WebAPIConfigWidget or DataSourceConfigWidget,
\* a required field that is empty has exactly one issue, "<key> is
\* required", and no second issue
C11_OneRequiredIssueAsStated ==
    v_widget \in {"WebAPIConfigWidget", "DataSourceConfigWidget"} /\ v_result.kind # "none" =>
        \A i \in 1..Len(v_fields) :
            /\ v_fields[i][2] = <<>>
            /\ ~ConfigOf(WidgetConfigs(v_widget), v_fields[i][1][1]).is_secret
            => /\ Count(v_fields[i][1][1] \o " is required") = 1
               /\ \A issue \in OtherIssues(v_fields[i][1][1]) : Count(issue) = 0

(***************************************************************************)
(* Properties of the main window                                           *)
(***************************************************************************)

\* the last handler showed the critical box with this text
ShownCritical(body) ==
    \E i \in 1..Len(msgbox) :
        msgbox[i].kind = "QMessageBox.critical" /\ msgbox[i].value = <<body>>

\* C5: a read that fails makes ConfigManager.load_config raise, whatever
\* the file holds, and a step in which the load_config call of open_config
\* raised leaves current_file and the fields of every section as they were
C5_FailedOpenKeepsState ==
    [][ /\ \A name \in FileNames, cause \in Causes :
               ReadError(fs, name, cause) # "" =>
                   ConfigManager_load_config(fs, name, cause).kind = "raised"
        /\ loaded'.kind = "raised" =>
               current_file' = current_file /\ sections' = sections ]_vars

\* an open_config failed to load a file while another file was the current
\* one and a field had been edited
C5_Witness ==
    /\ loaded.kind = "raised"
    /\ current_file = Some("a.env")
    /\ ShownCritical("Failed to load configuration: Failed to load configuration: "
                        \o "[Errno 2] No such file or directory: 'b.env'")
    /\ DictGet(DictGet(sections, "Host"), <<"HOST_PORT">>) = <<"7", "0", "0", "0", "0">>

\* the last handler reported a write that failed
SaveFailed ==
    \E cause \in Causes \ {""} :
        ShownCritical("Failed to save configuration: Failed to save configuration: "
                         \o cause)

\* C6: a step in which save_config or save_config_as reported a failed write
\* leaves current_file and the fields of every section as they were
C6_FailedSaveKeepsStateAsStated ==
    [][ SaveFailed' => current_file' = current_file /\ sections' = sections ]_vars

\* a step in which new_config got past check_unsaved_changes and ran
NewConfigDone ==
    \E reply \in Replies, cause \in Causes :
        /\ check_unsaved_changes(App, reply, cause)
        /\ sections' = new_config(App, reply, cause).sections
        /\ current_file' = None
        /\ status' = "New configuration created"

\* C20: new_config, through reset_to_defaults, sets every field of every
\* section back to the default add_field registered it with
C20_NewConfigRestoresDefaultsAsStated ==
    [][ NewConfigDone => sections' = InitialSections ]_vars

(***************************************************************************)
(* Properties of a session over one file                                   *)
(***************************************************************************)

\* no newline in the value and no whitespace around it
PlainValue(v) == Strip(v) = v /\ ~InSeq("\n", v)

PlainFields(fields) == \A i \in 1..Len(fields) : PlainValue(fields[i][2])

PlainSections(sects) == \A i \in 1..Len(sects) : PlainFields(sects[i][2])

\* the session's file is as the last successful save wrote it, and no
\* handler but edits, cancelled dialogs and failed reads or writes ran since
SavedAndEdited ==
    /\ saved_sections # None
    /\ PlainSections(saved_sections[1])
    /\ current_file = Some(SessionFile)
    /\ status = "Saved configuration to " \o SessionFile
    /\ fs[SessionFile] = Some(Encode(CurrentConfig(<<>>, saved_sections[1])))

\* the step is an open_config that loaded the session's file
OpensSessionFile ==
    /\ calls' = <<"open_config", "check_unsaved_changes: True", "getOpenFileName",
                  "ConfigManager.load_config", "load_config", "update_status">>
    /\ current_file' = Some(SessionFile)

\* C21: after save_config wrote the file, then field edits, then open_config
\* of the file with the prompt confirmed, every field of every section holds
\* the value it had when the file was saved
C21_ReopenRestoresSavedAsStated ==
    [][ SavedAndEdited /\ OpensSessionFile => sections' = saved_sections[1] ]_vars

\* the last handler was a save_config or save_config_as that wrote the file,
\* and no field was edited since
JustSaved ==
    /\ calls # <<>>
    /\ calls[1] \in {"save_config", "save_config_as"}
    /\ SaveSucceeded(calls)
    /\ saved_sections = Some(sections)

\* C22: right after a successful save, with no field edited and the file
\* readable, check_unsaved_changes returns True and shows no prompt
C22_NoPromptAfterSaveAsStated ==
    JustSaved =>
        \A reply \in Replies :
            /\ check_unsaved_changes(App, reply, "")
            /\ Questions(App, "") = <<>>

\* check_unsaved_changes returns False in this state, for this answer of
\* the user and this outcome of the read of the current file
ReturnsFalse(reply, cause) ==
    /\ current_file # None
    /\ ReadError(fs, current_file[1], cause) = ""
    /\ ~ConfigEq(CurrentConfig(<<>>, sections), Decode(fs[current_file[1]][1]))
    /\ reply = "No"

\* the step is a new_config or open_config whose check_unsaved_changes
\* returned False
StoppedByCheck ==
    /\ calls'[1] \in {"new_config", "open_config"}
    /\ calls'[Len(calls')] = "check_unsaved_changes: False"

\* C23: check_unsaved_changes returns False exactly when a current file is
\* set, it was read, the current configuration differs from it and the user
\* answered No; a new_config or open_config whose check returned False
\* leaves current_file and every field as they were
C23_RefusedCheckChangesNothing ==
    [][ /\ \A reply \in Replies, cause \in Causes :
               check_unsaved_changes(App, reply, cause) <=> ~ReturnsFalse(reply, cause)
        /\ StoppedByCheck =>
               current_file' = current_file /\ sections' = sections /\ fs' = fs ]_vars

\* the user answered No to the prompt of File > New after an edit of a
\* saved configuration
C23_Witness ==
    /\ calls = <<"new_config", "check_unsaved_changes: False">>
    /\ current_file = Some(SessionFile)
    /\ msgbox = << Question("Unsaved Changes",
                            "You have unsaved changes. Do you want to continue?") >>
    /\ DictGet(DictGet(sections, "Host"), <<"HOST_PORT">>) = <<"7", "0", "0", "0", "0">>

\* how often the handler made a call
CallCount(trace, name) == Cardinality({i \in 1..Len(trace) : trace[i] = name})

\* the step is a save_config made while no current file is set
SavesUnnamed == current_file = None /\ calls'[1] = "save_config"

\* the dialog of the step was cancelled: nothing else was called, nothing
\* written, no current file
CancelledSave ==
    /\ calls' = <<"save_config", "save_config_as", "getSaveFileName">>
    /\ fs' = fs
    /\ current_file' = None

\* the dialog of the step gave a name: current_file is the name, save_config
\* ran once more and called ConfigManager.save_config, which wrote the
\* current configuration unless the write failed
NamedSave ==
    /\ SubSeq(calls', 1, 5) = <<"save_config", "save_config_as", "getSaveFileName",
                                "save_config", "ConfigManager.save_config">>
    /\ CallCount(calls', "save_config") = 2
    /\ CallCount(calls', "save_config_as") = 1
    /\ CallCount(calls', "getSaveFileName") = 1
    /\ CallCount(calls', "ConfigManager.save_config") = 1
    /\ current_file' = Some(SessionFile)
    /\ \/ fs' = [fs EXCEPT ![SessionFile] = Some(Encode(CurrentConfig(<<>>, sections)))]
       \/ msgbox' # <<>> /\ msgbox'[Len(msgbox')].kind = "QMessageBox.critical"

\* C30: save_config with no current file calls save_config_as once; a
\* cancelled dialog writes nothing and leaves current_file unset; a chosen
\* name becomes current_file, save_config runs once more and writes, and
\* save_config_as is not called again
C30_SaveCallsTerminate ==
    [][ SavesUnnamed => CancelledSave \/ NamedSave ]_vars

\* File > Save of an unnamed configuration went through save_config_as and
\* wrote the file
C30_Witness ==
    /\ calls = <<"save_config", "save_config_as", "getSaveFileName",
                 "save_config", "ConfigManager.save_config", "update_status">>
    /\ current_file = Some(SessionFile)
    /\ fs[SessionFile] = Some(Encode(CurrentConfig(<<>>, sections)))
    /\ status = "Saved configuration to " \o SessionFile

(***************************************************************************)
(* Properties of the Tools menu                                            *)
(***************************************************************************)

\* the issues a section's validate hands back
IssuesOf(result) == IF result.kind = "returned" THEN result.value ELSE <<>>

\* the issues of the sections from the i-th on, each prefixed with the name
\* of its section
RECURSIVE AllIssues(_, _)
AllIssues(sects, i) ==
    IF i > Len(sects) THEN <<>>
    ELSE Prefixed(sects[i][1], IssuesOf(Section_validate(sects[i][1], sects[i][2])))
         \o AllIssues(sects, i + 1)

\* C16: validate_all shows the issues of all sections together, in section
\* order and prefixed with the section's name, and shows the success message
\* exactly when no section has an issue
C16_AllIssuesShownAsStated ==
    [][ A_validate_all =>
            msgbox' = IF AllIssues(sections, 1) = <<>>
                      THEN <<Information("Validation Success",
                                         "All configuration sections are valid!")>>
                      ELSE <<Warning("Validation Issues",
                                     IssuesBody(AllIssues(sections, 1)))>> ]_vars

\* what the boxes on the screen say validate_all did: it showed the issues,
\* showed the success message, or an exception left it
ShowsValidation(boxes) ==
    \E i \in 1..Len(boxes) :
        \/ boxes[i].kind = "sys.excepthook"
        \/ boxes[i].title \in {"Validation Issues", "Validation Success"}

JsonExported(filename) ==
    /\ sections' = sections
    /\ msgbox' = <<>>
    /\ status' = "Exported configuration as JSON"
    /\ fs' = export_json(App, filename, "", FALSE).fs

\* the document with one key per section, each mapped to the values of the
\* fields of the section
Document(sects) == [i \in 1..Len(sects) |-> <<<<sects[i][1]>>, get_config(sects[i][2])>>]

\* C18: the document export_json writes has one top-level key per section,
\* Host to Monitoring, each mapped to the current values of that section
C18_OneKeyPerSectionAsStated ==
    [][ \A filename \in ExportNames :
            JsonExported(filename) =>
                fs'[filename] = Some(json_dump(Document(sections))) ]_vars

\* a step in which export_config ran export_docker_compose on a file that
\* could be opened for writing
ComposeExported(filename) ==
    /\ sections' = sections
    /\ fs' = export_config(App, TRUE, "Docker Compose", filename, "", FALSE, TRUE).fs
    /\ status' = export_config(App, TRUE, "Docker Compose", filename, "", FALSE, TRUE).status
    /\ msgbox' = export_config(App, TRUE, "Docker Compose", filename, "", FALSE, TRUE).msgbox

\* C19: the Docker Compose export writes the services atlas, webapi and
\* postgres, filled from the current values of the sections, and ends with
\* no export error
C19_ComposeExportedAsStated ==
    [][ \A filename \in ExportNames :
            ComposeExported(filename) =>
                /\ msgbox' = <<>>
                /\ status' = "Exported configuration as Docker Compose"
                /\ fs'[filename] = Some(yaml_dump(compose_config(sections))) ]_vars

(***************************************************************************)
(* Properties of the wizard's validation                                   *)
(***************************************************************************)

\* the issues validate_field builds from a validation function, for the
\* texts a user may have typed
FormatIssues(field) ==
    { field.name \o " validation failed" }
        \cup
    { field.name \o " validation error: invalid literal for int() with base 10: '"
          \o TextStr(x) \o "'" : x \in WizardTyping(field.name) }

\* the issues of the last validation
PageIssues == { v_result.value[k] : k \in 1..Len(v_result.value) }

\* B depends on A being "true"; what the claim says of the last validation
DependentAsStated(B, A) ==
    /\ DictGet(v_fields, <<A>>) = BoolText(FALSE)
           => PageIssues \cap FormatIssues(B) = {}
    /\ DictGet(v_fields, <<A>>) = BoolText(TRUE) /\ B.required
         /\ DictGet(v_fields, <<B.name>>) = <<>>
           => (B.name \o " is required") \in PageIssues

\* C12: for a wizard field B with depends_on = {A: "true"}, a validation made
\* while A's value is "false" holds no format or validation-function issue for
\* B, and one made while A's value is "true" and B is required and empty holds
\* the issue "<B> is required".
C12_DependentFieldValidated ==
    v_widget \in WizardSections /\ v_result.kind = "returned" =>
        \A i \in 1..Len(SectionFields(v_widget)) :
            \A d \in 1..Len(SectionFields(v_widget)[i].depends_on) :
                SectionFields(v_widget)[i].depends_on[d][2] = BoolText(TRUE) =>
                    DependentAsStated(SectionFields(v_widget)[i],
                                      SectionFields(v_widget)[i].depends_on[d][1])

\* the Security page was validated on screen with database authentication
\* enabled and its schema empty, and LDAP authentication disabled
C12_Witness ==
    /\ v_widget = "Security"
    /\ v_on_screen
    /\ v_result.kind = "returned"
    /\ DictGet(v_fields, <<"SECURITY_AUTH_JDBC_ENABLED">>) = BoolText(TRUE)
    /\ DictGet(v_fields, <<"SECURITY_DB_DATASOURCE_SCHEMA">>) = <<>>
    /\ DictGet(v_fields, <<"SECURITY_AUTH_LDAP_ENABLED">>) = BoolText(FALSE)
    /\ "SECURITY_DB_DATASOURCE_SCHEMA is required" \in PageIssues
    /\ "SECURITY_LDAP_URL is required" \in PageIssues

\* the condition of a dependency as the claim reads it: a literal holds when
\* the controlling field's value equals it, a predicate bool(x) when the
\* value is not empty
ConditionAsStated(required_value, current_value) ==
    IF required_value = Lambda("lambda x: bool(x)") THEN current_value # <<>>
    ELSE current_value = required_value

\* what update_field_visibility reads from the controlling field
CurrentValue(dep_field) == DictGet(v_fields, <<dep_field>>)

\* C25: on a wizard page, after construction and after any changes to the
\* controlling fields, every field with depends_on has its container visible
\* exactly when its condition holds for the controlling field's value,
\* literal or predicate, and a hidden dependent field holds its cleared
\* value.  Violated: a predicate is compared with == to the text, which is
\* never true, so SOLR_VOCAB_VERSION and SOLR_VOCAB_DATABASE_SCHEMA stay
\* hidden when SOLR_VOCAB_ENDPOINT is not empty.
C25_DependentVisibleAsStated ==
    v_widget \in WizardSections =>
        \A i \in 1..Len(SectionFields(v_widget)) :
            \A d \in 1..Len(SectionFields(v_widget)[i].depends_on) :
                /\ SectionFields(v_widget)[i].name \notin v_hidden
                       <=> ConditionAsStated(SectionFields(v_widget)[i].depends_on[d][2],
                                             CurrentValue(SectionFields(v_widget)[i].depends_on[d][1]))
                /\ SectionFields(v_widget)[i].name \in v_hidden
                       => DictGet(v_fields, <<SectionFields(v_widget)[i].name>>)
                              = Cleared(SectionFields(v_widget)[i])

(***************************************************************************)
(* Properties of SpecSecurity                                              *)
(***************************************************************************)

\* the provider key the nine entries of the selector stand for
ProviderKeyAsStated(provider) ==
    ProviderPages[CHOOSE i \in 1..Len(ProviderSelectorItems) : ProviderSelectorItems[i] = provider]

\* C24: a step that changes the provider selector to p, which runs
\* on_provider_changed(p), ends with the page of p shown and with
\* ATLAS_SECURITY_PROVIDER_TYPE holding the provider key of p, for each of
\* the nine entries and after any earlier selections.  Violated: "Database",
\* "Active Directory" and "Google IAP" give the keys "database",
\* "activedirectory" and "googleiap", which are no keys of provider_widgets,
\* so the page and the type stay what they were.
C24_ProviderShownAsStated ==
    [][ provider_selector' # provider_selector =>
            /\ provider_stack' = ProviderKeyAsStated(provider_selector')
            /\ DictGet(v_fields', <<"ATLAS_SECURITY_PROVIDER_TYPE">>)
                   = ProviderKeyAsStated(provider_selector') ]_vars

(***************************************************************************)
(* Properties of SpecFinish                                                *)
(***************************************************************************)

\* on_finish has run for the wizard accepted
AcceptedFinish == calls # <<>> /\ calls[1] = "on_finish" /\ dialog_result = "Accepted"

\* C26: when the wizard is accepted with every field as construction left
\* it, validate_all returns no issues and on_finish goes on to save_config,
\* no required field with a default being reported as required.  Violated:
\* on_finish runs when the dialog is hidden already, get_field_value gives
\* "" for every widget that is not visible, and validate_all reports every
\* required field.
C26_DefaultsAcceptedAsStated ==
    AcceptedFinish /\ EditedFields(v_fields) = {} =>
        /\ v_result = Returned(<<>>)
        /\ InSeq("save_config", calls)

\* C27: a step in which on_finish calls save_config or changes a file is
\* one of the wizard accepted and validate_all having returned the empty
\* list; after issues, or for the wizard rejected, no file is written.
C27_ValidatesBeforePersisting ==
    [][ InSeq("save_config", calls') \/ fs' # fs =>
            /\ dialog_result' = "Accepted"
            /\ v_result' = Returned(<<>>) ]_vars

\* on_finish ran for the wizard accepted after the user had changed a field,
\* found issues, showed them and left the file that was there
C27_Witness ==
    /\ AcceptedFinish
    /\ EditedFields(v_fields) # {}
    /\ v_result.kind = "returned"
    /\ v_result.value # <<>>
    /\ calls = <<"on_finish", "validate_all">>
    /\ Len(msgbox) = 1
    /\ msgbox[1].kind = "QMessageBox.warning"
    /\ fs[EnvFile] = Some(<< <<"O", "L", "D", "=", "1">> >>)

(***************************************************************************)
(* Properties of SpecBuild                                                 *)
(***************************************************************************)

\* the last handler showed the generation message
Proceeded == \E k \in 1..Len(msgbox) : msgbox[k] = GenerationMessage

\* C28: after generate_docker_compose, the generation message was shown if
\* validate_config found no issues and was not shown if it found issues.
\* Violated: validate_config returns None whatever it found, so the test of
\* its result fails and the generation message is never shown.
C28_GeneratesIffValidAsStated ==
    calls = <<"generate_docker_compose">> =>
        (Proceeded <=> v_result = Returned(<<>>))

====
